---- MODULE Spec2Model ----
(***************************************************************************)
(* Game-state update loop of the asteroids scripts.                        *)
(*                                                                         *)
(* Two scripts are modelled side by side, selected by the variable         *)
(* `script`:                                                               *)
(*   "canonical"  src/unnamed/part_000 lines 1-634  (damp/clamp, buffer)   *)
(*   "game"       src/game.js                                              *)
(* The third script, part_000 lines 635-1111 ("third"), has the text of    *)
(* game.js from updateGameLogic to endGame but for the names of the mesh   *)
(* builders it asks BABYLON.MeshBuilder for; it runs in the specification  *)
(* SpecTwin.                                                               *)
(*                                                                         *)
(* Lengths are fixed-point, 1 unit = 0.01 world units; divisions truncate  *)
(* towards zero.  Times are milliseconds (Date.now()).  A mesh handle is   *)
(* a record; the null handle is the record NullShip.  The engine's         *)
(* intersection tests (intersectsSphere / intersectsMesh) and the ship's   *)
(* forward vector are results the engine hands to the script: they are     *)
(* inputs of the actions.  Rendering-only fields (isVisible, materials,    *)
(* GUI text, asteroid spin) are not state of the game logic.               *)
(***************************************************************************)
EXTENDS Integers, Sequences, FiniteSets, TLC

VARIABLES
    script,                 \* which script is running
    clock,                  \* last value Date.now() returned
    score, lives, isGameOver,
    playerShip, playerVelocity, playerInvincible, playerRespawnTime,
    bullets, asteroids, lastAsteroidSpawnTime,
    uniqueId,               \* number of meshes created so far (mesh identity)
    host,                   \* the functions BABYLON.MeshBuilder provides
    steps,                  \* ticks and controller events explored so far
    session,                \* what has been logged since the scene was created
    last                    \* the last event and the engine results it read

vars == <<script, clock, score, lives, isGameOver, playerShip, playerVelocity,
          playerInvincible, playerRespawnTime, bullets, asteroids,
          lastAsteroidSpawnTime, uniqueId, host, steps, session, last>>

Scripts == {"canonical", "game"}

---------------------------------------------------------------------------
(* Bounds of the exploration *)

MaxSteps == 3        \* ticks and controller events explored after the opening
MaxSamples == 2      \* draws of the spawn-position loop explored per spawn
StartTime == 5000    \* Date.now() when the scene is created

---------------------------------------------------------------------------
(* Program constants (lengths in 0.01 world units) *)

PLAYER_SPEED == 8
PLAYER_MAX_SPEED == 150
PLAYER_DAMPING == 98             \* per cent
PLAYER_ROTATION_SPEED == 5       \* 0.01 rad
\* variant: the third script has the bullet speed of the canonical one
BULLET_SPEED_Retuned(s) == IF s = "game" THEN 50 ELSE 70
BULLET_SPEED(s) == IF s = "canonical" THEN 70 ELSE 50
BULLET_LIFETIME(s) == IF s = "canonical" THEN 80 ELSE 60
ASTEROID_MIN_SPEED == 1
ASTEROID_MAX_SPEED == 4
ASTEROID_SPAWN_INTERVAL == 1000
ASTEROID_MAX_COUNT == 15
PLAY_AREA_SIZE == 3000
INITIAL_LIVES == 3
RESPAWN_INVINCIBILITY_TIME == 3000
SCORE_PER_ASTEROID == 100
Infinity == 1000000000           \* lastAsteroidSpawnTime = Infinity

---------------------------------------------------------------------------
(* Vector3 arithmetic *)

TruncDiv(a, b) == IF a >= 0 THEN a \div b ELSE -((-a) \div b)

Zero == <<0, 0, 0>>
VAdd(a, b) == <<a[1] + b[1], a[2] + b[2], a[3] + b[3]>>
VSub(a, b) == <<a[1] - b[1], a[2] - b[2], a[3] - b[3]>>
\* v * (num/den)
VScale(v, num, den) ==
    <<TruncDiv(v[1] * num, den), TruncDiv(v[2] * num, den), TruncDiv(v[3] * num, den)>>
LengthSquared(v) == v[1] * v[1] + v[2] * v[2] + v[3] * v[3]

RECURSIVE ISqrtIn(_, _, _)
ISqrtIn(n, lo, hi) ==
    IF lo >= hi THEN lo
    ELSE LET mid == (lo + hi + 1) \div 2
         IN IF mid * mid <= n THEN ISqrtIn(n, mid, hi) ELSE ISqrtIn(n, lo, mid - 1)
Length(v) == ISqrtIn(LengthSquared(v), 0, 12000)
\* the length rounded up: scaling by len / LengthUp(v) never yields a vector
\* longer than len
LengthUp(v) == IF Length(v) * Length(v) = LengthSquared(v) THEN Length(v) ELSE Length(v) + 1
\* normalize().scale(len): the vector of length len along v (v itself when v = 0)
NormalizeScale(v, len) == IF Length(v) = 0 THEN v ELSE VScale(v, len, LengthUp(v))

Abs(x) == IF x < 0 THEN -x ELSE x

\* variant: splice is given the index before
RemoveAtBefore(seq, i) ==
    [k \in 1..(Len(seq) - 1) |-> IF k < (IF i > 1 THEN i - 1 ELSE i) THEN seq[k] ELSE seq[k + 1]]
RemoveAt(seq, i) == [k \in 1..(Len(seq) - 1) |-> IF k < i THEN seq[k] ELSE seq[k + 1]]

---------------------------------------------------------------------------
(* Meshes *)

\* the null handle (playerShip = null)
NullShip == [isNull |-> TRUE, position |-> Zero, rotationY |-> 0, enabled |-> FALSE]
\* createScene: the cone at the origin, yaw 0, enabled
NewShip == [isNull |-> FALSE, position |-> Zero, rotationY |-> 0, enabled |-> TRUE]

\* playerShip && playerShip.isEnabled()
ShipEnabled(g) == ~g.playerShip.isNull /\ g.playerShip.enabled

\* console.log(msg)
Log(g, msg) == [g EXCEPT !.console = Append(@, msg)]

\* The mesh builders: the names the scripts look up in BABYLON.MeshBuilder,
\* and whether the host library has what script s needs to build the ship,
\* a bullet, an asteroid
Builders ==
    {"CreateCone", "CreateSphere", "CreateIcosahedron", "CreateIcoSphere",
     "createCone", "createBox", "createSphere", "createIcosahedron"}
ConeBuilt(s, h) ==
    IF s = "third" THEN "createCone" \in h \/ "createBox" \in h ELSE "CreateCone" \in h
SphereBuilt(s, h) ==
    IF s = "third" THEN "createSphere" \in h ELSE "CreateSphere" \in h
IcosahedronBuilt(s, h) ==
    IF s = "third" THEN "createIcosahedron" \in h
    ELSE "CreateIcosahedron" \in h \/ "CreateIcoSphere" \in h

\* the module-level variables after initializeGame and createScene, on a
\* host that provides every builder
NewGame ==
    [score |-> 0, lives |-> INITIAL_LIVES, isGameOver |-> FALSE,
     playerShip |-> NewShip, playerVelocity |-> Zero,
     playerInvincible |-> FALSE, playerRespawnTime |-> 0,
     bullets |-> <<>>, asteroids |-> <<>>, lastAsteroidSpawnTime |-> 0,
     uniqueId |-> 0, host |-> Builders,
     \* bookkeeping: the console output and the bullet-asteroid pairs destroyed
     \* in the current event; the calls so far of playerHit (and the time of
     \* the latest) and the runs so far of the game-over teardown
     console |-> <<>>, kills |-> <<>>,
     session |-> [hits |-> 0, hitAt |-> 0, gameOvers |-> 0]]

\* createScene of script s on a host that provides the builders h
createScene(s, h) ==
    [NewGame EXCEPT !.host = h,
                    !.playerShip = IF ConeBuilt(s, h) THEN NewShip ELSE NullShip]

---------------------------------------------------------------------------
(* Bounds policies *)

WrapBuffer(s) == IF s = "canonical" THEN 200 ELSE 0
WrapLimit(s) == PLAY_AREA_SIZE + WrapBuffer(s)
\* variant: the coordinate is carried over the edge instead of being set on it
WrapCoordModulo(s, c) ==
    IF c > WrapLimit(s) THEN c - 2 * WrapLimit(s)
    ELSE IF c < -WrapLimit(s) THEN c + 2 * WrapLimit(s)
    ELSE c
\* variant: only the upper limit is tested
WrapCoordAbove(s, c) == IF c > WrapLimit(s) THEN -WrapLimit(s) ELSE c
\* variant: the comparisons are not strict
WrapCoordInclusive(s, c) ==
    IF c >= WrapLimit(s) THEN -WrapLimit(s)
    ELSE IF c <= -WrapLimit(s) THEN WrapLimit(s)
    ELSE c
WrapCoord(s, c) ==
    IF c > WrapLimit(s) THEN -WrapLimit(s)
    ELSE IF c < -WrapLimit(s) THEN WrapLimit(s)
    ELSE c
wrapAround(s, p) == <<WrapCoord(s, p[1]), WrapCoord(s, p[2]), WrapCoord(s, p[3])>>

\* variant: no position is out of bounds
isOutOfBoundsNever(s, p) == FALSE
CullMargin(s) == IF s = "canonical" THEN 1000 ELSE 500
isOutOfBounds(s, p) ==
    \/ Abs(p[1]) > PLAY_AREA_SIZE + CullMargin(s)
    \/ Abs(p[2]) > PLAY_AREA_SIZE + CullMargin(s)
    \/ Abs(p[3]) > PLAY_AREA_SIZE + CullMargin(s)

---------------------------------------------------------------------------
(* Bullets *)

\* variant: fireBullet does not ask whether the ship is enabled
fireBulletUnguarded(s, g, dir) ==
    IF g.playerShip.isNull THEN g
    ELSE LET bullet ==
               [id |-> g.uniqueId + 1,
                position |-> IF s = "canonical"
                             THEN VAdd(g.playerShip.position, VScale(dir, 60, 100))
                             ELSE g.playerShip.position,
                velocity |-> VScale(dir, BULLET_SPEED(s), 100),
                life |-> BULLET_LIFETIME(s),
                disposed |-> FALSE]
         IN [g EXCEPT !.bullets = Append(@, bullet), !.uniqueId = @ + 1]
\* dir is playerShip.forward.scale(-1).normalize(), a vector of length 100
fireBullet(s, g, dir) ==
    IF ~ShipEnabled(g) THEN g
    ELSE IF ~SphereBuilt(s, g.host) THEN g
    ELSE LET bullet ==
               [id |-> g.uniqueId + 1,
                position |-> IF s = "canonical"
                             THEN VAdd(g.playerShip.position, VScale(dir, 60, 100))
                             ELSE g.playerShip.position,
                velocity |-> VScale(dir, BULLET_SPEED(s), 100),
                life |-> BULLET_LIFETIME(s),
                disposed |-> FALSE]
         IN [g EXCEPT !.bullets = Append(@, bullet), !.uniqueId = @ + 1]

\* variant: the bullets in flight share one life counter, so each of them
\* loses one unit per bullet updated
RECURSIVE UpdateBulletsShared(_, _, _)
UpdateBulletsShared(s, bs, i) ==
    IF i < 1 THEN bs
    ELSE LET moved == [bs[i] EXCEPT !.position = VAdd(@, bs[i].velocity),
                                    !.life = @ - Len(bs)]
         IN IF moved.life <= 0 \/ isOutOfBounds(s, moved.position)
            THEN UpdateBulletsShared(s, RemoveAt(bs, i), i - 1)
            ELSE UpdateBulletsShared(s, [bs EXCEPT ![i] = moved], i - 1)
\* variant: a bullet is removed only once its life is below zero
RECURSIVE UpdateBulletsLate(_, _, _)
UpdateBulletsLate(s, bs, i) ==
    IF i < 1 THEN bs
    ELSE LET moved == [bs[i] EXCEPT !.position = VAdd(@, bs[i].velocity),
                                    !.life = @ - 1]
         IN IF moved.life < 0 \/ isOutOfBounds(s, moved.position)
            THEN UpdateBulletsLate(s, RemoveAt(bs, i), i - 1)
            ELSE UpdateBulletsLate(s, [bs EXCEPT ![i] = moved], i - 1)
\* the loop body of updateBullets for index i, then the lower indices
RECURSIVE UpdateBulletsFrom(_, _, _)
UpdateBulletsFrom(s, bs, i) ==
    IF i < 1 THEN bs
    ELSE LET moved == [bs[i] EXCEPT !.position = VAdd(@, bs[i].velocity),
                                    !.life = @ - 1]
         IN IF moved.life <= 0 \/ isOutOfBounds(s, moved.position)
            THEN UpdateBulletsFrom(s, RemoveAt(bs, i), i - 1)
            ELSE UpdateBulletsFrom(s, [bs EXCEPT ![i] = moved], i - 1)

updateBullets(s, g) == [g EXCEPT !.bullets = UpdateBulletsFrom(s, @, Len(@))]

---------------------------------------------------------------------------
(* Asteroids *)

\* variant: the velocity is subtracted from the position
updateAsteroidsBackwards(s, g) ==
    [g EXCEPT !.asteroids =
        [k \in 1..Len(@) |->
            [@[k] EXCEPT !.position = wrapAround(s, VSub(@, g.asteroids[k].velocity))]]]
\* every asteroid carries metadata, so the loop moves and wraps each one once
updateAsteroids(s, g) ==
    [g EXCEPT !.asteroids =
        [k \in 1..Len(@) |->
            [@[k] EXCEPT !.position = wrapAround(s, VAdd(@, g.asteroids[k].velocity))]]]

\* One draw of the spawn position.  d.r holds the three (Math.random()*2-1)
\* values in hundredths, d.axis is 0..2 and d.side is -1 or 1.
EdgeDist(s) == IF s = "canonical" THEN (PLAY_AREA_SIZE * 8) \div 10 ELSE PLAY_AREA_SIZE
\* variant: no coordinate is moved onto a face
SpawnPosInside(s, d) == VScale(d.r, EdgeDist(s), 100)
SpawnPos(s, d) ==
    [VScale(d.r, EdgeDist(s), 100) EXCEPT ![d.axis + 1] = PLAY_AREA_SIZE * d.side]

\* the while condition of the do-while loop (canonical script only)
MinSpawnDistSq == 1000000        \* lengthSquared() < 100, in (0.01 units)^2
\* variant: the safe distance is larger than the play area
TooCloseAcrossField(s, g, p) ==
    /\ s = "canonical"
    /\ ~g.playerShip.isNull
    /\ LengthSquared(VSub(p, g.playerShip.position)) < 16 * PLAY_AREA_SIZE * PLAY_AREA_SIZE
\* variant: the loop takes its first draw, wherever the player is
TooCloseNever(s, g, p) == FALSE
TooClose(s, g, p) ==
    /\ s = "canonical"
    /\ ~g.playerShip.isNull
    /\ LengthSquared(VSub(p, g.playerShip.position)) < MinSpawnDistSq

\* rnd.draws are the successive draws of the loop: the loop ends at the first
\* draw that is not too close to the player
DrawsRunLoop(s, g, draws) ==
    /\ Len(draws) >= 1
    /\ \A i \in 1..(Len(draws) - 1) : TooClose(s, g, SpawnPos(s, draws[i]))
    /\ ~TooClose(s, g, SpawnPos(s, draws[Len(draws)]))

\* rnd.speed is Math.random() in hundredths, rnd.t the three (Math.random()-0.5)
AsteroidSpeed(rnd) ==
    ASTEROID_MIN_SPEED + TruncDiv(rnd.speed * (ASTEROID_MAX_SPEED - ASTEROID_MIN_SPEED), 100)
AsteroidVelocity(s, rnd, p) ==
    IF s = "canonical"
    THEN NormalizeScale(VSub(VScale(rnd.t, PLAY_AREA_SIZE \div 2, 100), p), AsteroidSpeed(rnd))
    ELSE NormalizeScale(rnd.t, AsteroidSpeed(rnd))

setupAsteroid(s, g, rnd) ==
    LET p == SpawnPos(s, rnd.draws[Len(rnd.draws)])
        asteroid == [id |-> g.uniqueId + 1, position |-> p,
                     velocity |-> AsteroidVelocity(s, rnd, p),
                     size |-> rnd.size, disposed |-> FALSE]
    IN [g EXCEPT !.asteroids = Append(@, asteroid), !.uniqueId = @ + 1]

createAsteroid(s, g, rnd) ==
    IF IcosahedronBuilt(s, g.host) THEN setupAsteroid(s, g, rnd) ELSE g

\* variant: the test of the asteroid count is missing
SpawnDueUncapped(s, g, now) ==
    /\ now > g.lastAsteroidSpawnTime + ASTEROID_SPAWN_INTERVAL
    /\ (s = "canonical" => ~g.isGameOver)
\* variant: a spawn is due as soon as the interval has elapsed
SpawnDueAtInterval(s, g, now) ==
    /\ now >= g.lastAsteroidSpawnTime + ASTEROID_SPAWN_INTERVAL
    /\ Len(g.asteroids) < ASTEROID_MAX_COUNT
    /\ (s = "canonical" => ~g.isGameOver)
SpawnDue(s, g, now) ==
    /\ now > g.lastAsteroidSpawnTime + ASTEROID_SPAWN_INTERVAL
    /\ Len(g.asteroids) < ASTEROID_MAX_COUNT
    /\ (s = "canonical" => ~g.isGameOver)

spawnAsteroidsIfNeeded(s, g, now, rnd) ==
    IF SpawnDue(s, g, now)
    THEN [createAsteroid(s, g, rnd) EXCEPT !.lastAsteroidSpawnTime = now]
    ELSE g

---------------------------------------------------------------------------
(* Player state machine *)

\* variant: the teardown flips isGameOver instead of setting it, and has no
\* guard
endGameToggles(s, g) ==
    [Log(g, "Game Over!") EXCEPT
        !.session.gameOvers = @ + 1,
        !.isGameOver = ~@,
        !.lastAsteroidSpawnTime = IF s = "canonical" THEN Infinity ELSE @,
        !.playerShip = NullShip,
        !.asteroids = <<>>,
        !.bullets = <<>>]
\* variant: the teardown forgets isGameOver = true
endGameFlagless(s, g) ==
    IF s = "canonical" /\ g.isGameOver THEN g
    ELSE [Log(g, "Game Over!") EXCEPT
            !.session.gameOvers = @ + 1,
            !.lastAsteroidSpawnTime = IF s = "canonical" THEN Infinity ELSE @,
            !.playerShip = NullShip,
            !.asteroids = <<>>,
            !.bullets = <<>>]
endGame(s, g) ==
    IF s = "canonical" /\ g.isGameOver THEN g
    ELSE [Log(g, "Game Over!") EXCEPT
            !.session.gameOvers = @ + 1,
            !.isGameOver = TRUE,
            !.lastAsteroidSpawnTime = IF s = "canonical" THEN Infinity ELSE @,
            !.playerShip = NullShip,
            !.asteroids = <<>>,
            !.bullets = <<>>]

\* variant: the respawn leaves the ship enabled
RespawnEnabled(g, now) ==
    IF g.playerShip.isNull THEN g
    ELSE [Log(g, "Player respawned") EXCEPT
            !.playerShip = [@ EXCEPT !.position = Zero, !.rotationY = 0],
            !.playerVelocity = Zero,
            !.playerInvincible = TRUE,
            !.playerRespawnTime = now]
\* variant: the respawn leaves the ship where and as it was struck
RespawnInPlace(g, now) ==
    IF g.playerShip.isNull THEN g
    ELSE [Log(g, "Player respawned") EXCEPT
            !.playerShip = [@ EXCEPT !.enabled = FALSE],
            !.playerVelocity = Zero,
            !.playerInvincible = TRUE,
            !.playerRespawnTime = now]
\* the lives > 0 branch of playerHit
Respawn(g, now) ==
    IF g.playerShip.isNull THEN g
    ELSE [Log(g, "Player respawned") EXCEPT
            !.playerShip = [@ EXCEPT !.position = Zero, !.rotationY = 0, !.enabled = FALSE],
            !.playerVelocity = Zero,
            !.playerInvincible = TRUE,
            !.playerRespawnTime = now]

\* the else branch of playerHit
LastLifeLost(s, g) ==
    IF s = "canonical"
    THEN endGame(s, [g EXCEPT !.playerShip = NullShip])
    ELSE IF g.playerShip.isNull THEN g
         ELSE [g EXCEPT !.playerShip.enabled = FALSE]

\* variant: the asteroid that strikes the player is scored as well
playerHitScores(s, g, now) ==
    LET h == [g EXCEPT !.lives = @ - 1, !.playerVelocity = Zero,
                       !.score = @ + SCORE_PER_ASTEROID,
                       !.session.hits = @ + 1, !.session.hitAt = now]
    IN IF h.lives > 0 THEN Respawn(h, now) ELSE LastLifeLost(s, h)
playerHit(s, g, now) ==
    LET h == [g EXCEPT !.lives = @ - 1, !.playerVelocity = Zero,
                       !.session.hits = @ + 1, !.session.hitAt = now]
    IN IF h.lives > 0 THEN Respawn(h, now) ELSE LastLifeLost(s, h)

---------------------------------------------------------------------------
(* Collisions.  hitBA is the set of <<bullet id, asteroid id>> pairs and    *)
(* hitPA the set of asteroid ids for which the engine's intersection test   *)
(* answers true in this tick.                                               *)

\* the "continue" guards at the head of the loop bodies
BulletSkipped(s, b) == IF s = "canonical" THEN ~b.disposed ELSE FALSE
AsteroidSkipped(s, a) == IF s = "canonical" THEN a.disposed ELSE FALSE

\* variant: the bullet goes through the asteroids it hits (no splice of the
\* bullet, no break)
RECURSIVE AsteroidScanPiercing(_, _, _, _, _)
AsteroidScanPiercing(s, g, i, j, hitBA) ==
    IF j < 1 THEN g
    ELSE IF AsteroidSkipped(s, g.asteroids[j]) THEN AsteroidScanPiercing(s, g, i, j - 1, hitBA)
    ELSE IF <<g.bullets[i].id, g.asteroids[j].id>> \in hitBA
         THEN AsteroidScanPiercing(s,
                  [g EXCEPT !.kills = Append(@, <<g.bullets[i].id, g.asteroids[j].id>>),
                            !.asteroids = RemoveAt(@, j),
                            !.score = @ + SCORE_PER_ASTEROID],
                  i, j - 1, hitBA)
         ELSE AsteroidScanPiercing(s, g, i, j - 1, hitBA)
\* the inner loop for bullet i, from asteroid j downwards
RECURSIVE AsteroidScan(_, _, _, _, _)
AsteroidScan(s, g, i, j, hitBA) ==
    IF j < 1 THEN g
    ELSE IF AsteroidSkipped(s, g.asteroids[j]) THEN AsteroidScan(s, g, i, j - 1, hitBA)
    ELSE IF <<g.bullets[i].id, g.asteroids[j].id>> \in hitBA
         THEN [g EXCEPT !.kills = Append(@, <<g.bullets[i].id, g.asteroids[j].id>>),
                        !.asteroids = RemoveAt(@, j),
                        !.bullets = RemoveAt(@, i),
                        !.score = @ + SCORE_PER_ASTEROID]
         ELSE AsteroidScan(s, g, i, j - 1, hitBA)

\* the outer loop, from bullet i downwards
RECURSIVE BulletScan(_, _, _, _)
BulletScan(s, g, i, hitBA) ==
    IF i < 1 THEN g
    ELSE IF BulletSkipped(s, g.bullets[i]) THEN BulletScan(s, g, i - 1, hitBA)
    ELSE BulletScan(s, AsteroidScan(s, g, i, Len(g.asteroids), hitBA), i - 1, hitBA)

\* the body of the player loop on a hit
PlayerStruck(s, g, j, now) ==
    IF s = "canonical"
    THEN playerHit(s, [Log(g, "Player hit by asteroid!") EXCEPT !.asteroids = RemoveAt(@, j)], now)
    ELSE [playerHit(s, Log(g, "Player hit by asteroid!"), now) EXCEPT !.asteroids = RemoveAt(@, j)]

\* variant: the player loop does not break after a hit
RECURSIVE PlayerScanOn(_, _, _, _, _)
PlayerScanOn(s, g, j, now, hitPA) ==
    IF j < 1 THEN g
    ELSE IF j > Len(g.asteroids) THEN PlayerScanOn(s, g, j - 1, now, hitPA)
    ELSE IF AsteroidSkipped(s, g.asteroids[j]) THEN PlayerScanOn(s, g, j - 1, now, hitPA)
    ELSE IF g.asteroids[j].id \in hitPA
         THEN PlayerScanOn(s, PlayerStruck(s, g, j, now), j - 1, now, hitPA)
    ELSE PlayerScanOn(s, g, j - 1, now, hitPA)
RECURSIVE PlayerScan(_, _, _, _, _)
PlayerScan(s, g, j, now, hitPA) ==
    IF j < 1 THEN g
    ELSE IF AsteroidSkipped(s, g.asteroids[j]) THEN PlayerScan(s, g, j - 1, now, hitPA)
    ELSE IF g.asteroids[j].id \in hitPA THEN PlayerStruck(s, g, j, now)
    ELSE PlayerScan(s, g, j - 1, now, hitPA)

\* variant: the player loop runs whenever there is a ship
PlayerCollidableAlways(g) == ~g.playerShip.isNull
PlayerCollidable(g) == ShipEnabled(g) /\ ~g.playerInvincible

\* variant: the player loop runs before the bullet loop
checkCollisionsPlayerFirst(s, g, now, hitBA, hitPA) ==
    LET p == IF PlayerCollidable(g) THEN PlayerScan(s, g, Len(g.asteroids), now, hitPA) ELSE g
    IN BulletScan(s, p, Len(p.bullets), hitBA)
checkCollisions(s, g, now, hitBA, hitPA) ==
    LET b == BulletScan(s, g, Len(g.bullets), hitBA)
    IN IF PlayerCollidable(b) THEN PlayerScan(s, b, Len(b.asteroids), now, hitPA) ELSE b

---------------------------------------------------------------------------
(* The tick *)

\* the player block at the head of updateGameLogic
ClampSpeed(v) ==
    IF LengthSquared(v) > PLAYER_MAX_SPEED * PLAYER_MAX_SPEED
    THEN NormalizeScale(v, PLAYER_MAX_SPEED) ELSE v
\* variant: the position is integrated before the velocity is damped and
\* clamped
movePlayerIntegratesFirst(s, g) ==
    IF ~ShipEnabled(g) THEN g
    ELSE LET v == IF s = "canonical"
                  THEN ClampSpeed(VScale(g.playerVelocity, PLAYER_DAMPING, 100))
                  ELSE g.playerVelocity
         IN [g EXCEPT !.playerVelocity = v,
                      !.playerShip.position = wrapAround(s, VAdd(@, g.playerVelocity))]
movePlayer(s, g) ==
    IF ~ShipEnabled(g) THEN g
    ELSE LET v == IF s = "canonical"
                  THEN ClampSpeed(VScale(g.playerVelocity, PLAYER_DAMPING, 100))
                  ELSE g.playerVelocity
         IN [g EXCEPT !.playerVelocity = v,
                      !.playerShip.position = wrapAround(s, VAdd(@, v))]

\* everything a tick does before checkCollisions
beforeCollisions(s, g, now, rnd) ==
    spawnAsteroidsIfNeeded(s, updateAsteroids(s, updateBullets(s, movePlayer(s, g))), now, rnd)

\* variant: updateGameLogic does not look at lives
gameOverCheckMissing(s, g) == g
\* if (lives <= 0 && !isGameOver) endGame()
gameOverCheck(s, g) == IF g.lives <= 0 /\ ~g.isGameOver THEN endGame(s, g) ELSE g

\* variant: the window ends one millisecond early
InvincibilityOverAtDeadline(g, now) == now >= g.playerRespawnTime + RESPAWN_INVINCIBILITY_TIME
InvincibilityOver(g, now) == now > g.playerRespawnTime + RESPAWN_INVINCIBILITY_TIME

\* variant: updateGameLogic has no invincibility block
invincibilityCheckAbsent(g, now) == g
\* the invincibility block at the end of updateGameLogic
invincibilityCheck(g, now) ==
    IF g.playerInvincible /\ ~g.playerShip.isNull /\ InvincibilityOver(g, now)
    THEN [Log(g, "Player no longer invincible") EXCEPT
            !.playerInvincible = FALSE, !.playerShip.enabled = TRUE]
    ELSE g

\* variant: the invincibility block runs before the collisions are resolved
updateGameLogicExpiresFirst(s, g, now, rnd, hitBA, hitPA) ==
    IF g.isGameOver THEN g
    ELSE gameOverCheck(s,
            checkCollisions(s,
                invincibilityCheck(beforeCollisions(s, g, now, rnd), now),
                now, hitBA, hitPA))
\* variant: updateGameLogic does not return when the game is over
updateGameLogicUnguarded(s, g, now, rnd, hitBA, hitPA) ==
    invincibilityCheck(
        gameOverCheck(s,
            checkCollisions(s, beforeCollisions(s, g, now, rnd), now, hitBA, hitPA)),
        now)
updateGameLogic(s, g, now, rnd, hitBA, hitPA) ==
    IF g.isGameOver THEN g
    ELSE invincibilityCheck(
            gameOverCheck(s,
                checkCollisions(s, beforeCollisions(s, g, now, rnd), now, hitBA, hitPA)),
            now)

---------------------------------------------------------------------------
(* Controller input.  ax, ay are the thumbstick axes in hundredths. *)

Rotate(g, ax) ==
    IF ax < -10 THEN [g EXCEPT !.playerShip.rotationY = @ - PLAYER_ROTATION_SPEED]
    ELSE IF ax > 10 THEN [g EXCEPT !.playerShip.rotationY = @ + PLAYER_ROTATION_SPEED]
    ELSE g

Thrust(s, g, ay, dir) ==
    IF ay >= -10 THEN g
    ELSE IF s = "canonical"
         THEN [g EXCEPT !.playerVelocity = VAdd(@, VScale(dir, (-ay) * PLAYER_SPEED, 10000))]
         ELSE [g EXCEPT !.playerVelocity =
                    VScale(VAdd(@, VScale(dir, PLAYER_SPEED, 100)), 98, 100)]

\* thumbstick.onAxisValueChangedObservable
onAxisValueChanged(s, g, ax, ay, dir) ==
    IF g.isGameOver \/ ~ShipEnabled(g) THEN g
    ELSE Thrust(s, Rotate(g, ax), ay, dir)

\* variant: a press after the game is over starts a new game
onTriggerPressedRestarts(s, g, dir) ==
    IF g.isGameOver THEN [NewGame EXCEPT !.uniqueId = g.uniqueId, !.session = g.session]
    ELSE IF ShipEnabled(g) THEN fireBullet(s, g, dir) ELSE g
\* trigger.onButtonStateChangedObservable, on a press
onTriggerPressed(s, g, dir) ==
    IF ~g.isGameOver /\ ShipEnabled(g) THEN fireBullet(s, g, dir) ELSE g

---------------------------------------------------------------------------
(* Inputs explored *)

\* nose directions the engine may report (length 100)
Directions == {<<0, 0, 100>>, <<100, 0, 0>>}

\* thumbstick positions: pushed left; pushed right and half forward
StickAxes == {<<-100, 0>>, <<100, -50>>}

\* Math.random() results of one spawn
Draws == {[r |-> <<0, 0, 0>>, axis |-> 0, side |-> 1],
          [r |-> <<100, -100, 50>>, axis |-> 2, side |-> -1]}
DrawSeqs == UNION {[1..n -> Draws] : n \in 1..MaxSamples}
SpawnRandoms ==
    {[size |-> 100, speed |-> 0, t |-> <<0, 0, 0>>, draws |-> d] : d \in DrawSeqs}
    \cup {[size |-> 300, speed |-> 100, t |-> <<50, -50, 0>>, draws |-> d] : d \in DrawSeqs}

\* what Math.random() may return to a tick: the draws of a spawn when one is
\* due (g: the game once the player has moved), nothing that matters otherwise
RandomsRead(s, g, now) ==
    IF SpawnDue(s, g, now) /\ ~g.isGameOver
    THEN {rnd \in SpawnRandoms : DrawsRunLoop(s, g, rnd.draws)}
    ELSE {CHOOSE rnd \in SpawnRandoms : TRUE}

\* Date.now() read by the next tick: just before, at or just after the instant the next
\* time comparison of the script changes its answer (the end of the
\* invincibility window while the player is invincible, the spawn interval
\* otherwise), or just after the previous read when there is none ahead
Deadlines ==
    IF playerInvincible
    THEN {playerRespawnTime + RESPAWN_INVINCIBILITY_TIME - 1,
          playerRespawnTime + RESPAWN_INVINCIBILITY_TIME,
          playerRespawnTime + RESPAWN_INVINCIBILITY_TIME + 1}
    ELSE {lastAsteroidSpawnTime + ASTEROID_SPAWN_INTERVAL,
          lastAsteroidSpawnTime + ASTEROID_SPAWN_INTERVAL + 1}
TickTimes ==
    LET ahead == {t \in Deadlines : t > clock /\ t < Infinity}
    IN IF ahead = {} THEN {clock + 1} ELSE ahead

\* Intersections the engine may report in one tick: between the bullets, the
\* player and the two asteroids at the end of the array, at most two at once
Ids(seq) == {seq[k].id : k \in 1..Len(seq)}
Nearby(seq) == {seq[k].id : k \in {n \in 1..Len(seq) : n + 2 > Len(seq)}}
EngineResults(g) ==
    {h \in [hitBA : SUBSET (Ids(g.bullets) \X Nearby(g.asteroids)),
            hitPA : SUBSET Nearby(g.asteroids)] :
        Cardinality(h.hitBA) + Cardinality(h.hitPA) <= 2}

\* Scripted openings: runs of ticks without controller input, played from
\* the new scene in one step
Frame(now, hitPA) ==
    [now |-> now,
     rnd |-> [size |-> 100, speed |-> 0, t |-> Zero,
              draws |-> <<[r |-> <<0, 0, 0>>, axis |-> 0, side |-> 1]>>],
     hitBA |-> {}, hitPA |-> hitPA]
Respawned == RESPAWN_INVINCIBILITY_TIME + 1
Spawning == ASTEROID_SPAWN_INTERVAL + 1
\* the first asteroid strikes the player
JustHit == <<Frame(StartTime + 1, {1})>>
\* ... and the window runs out
OneLifeLost == JustHit \o <<Frame(StartTime + 1 + Respawned, {})>>
\* ... and the third asteroid strikes again; the window runs out
TwoLivesLost ==
    OneLifeLost \o
    <<Frame(StartTime + 1 + Respawned + Spawning, {3}),
      Frame(StartTime + 1 + Respawned + Spawning + Respawned, {})>>
\* nothing is hit until the field is one short of full
Crowded == [k \in 1..(ASTEROID_MAX_COUNT - 1) |-> Frame(StartTime + 1 + (k - 1) * Spawning, {})]
Openings == {JustHit, OneLifeLost, TwoLivesLost, Crowded}

---------------------------------------------------------------------------
(* State machine *)

\* the module-level variables as one record, with an empty console
State ==
    [score |-> score, lives |-> lives, isGameOver |-> isGameOver,
     playerShip |-> playerShip, playerVelocity |-> playerVelocity,
     playerInvincible |-> playerInvincible, playerRespawnTime |-> playerRespawnTime,
     bullets |-> bullets, asteroids |-> asteroids,
     lastAsteroidSpawnTime |-> lastAsteroidSpawnTime,
     uniqueId |-> uniqueId, host |-> host,
     console |-> <<>>, kills |-> <<>>, session |-> session]

\* the last event: what it was, the engine results and the controller input
\* it read, what it logged and destroyed, and the game as the event found it
Event(op, now, h, in, g) ==
    [op |-> op, now |-> now, hitBA |-> h.hitBA, hitPA |-> h.hitPA,
     input |-> in, console |-> g.console, kills |-> g.kills,
     before |-> State]
NoResults == [hitBA |-> {}, hitPA |-> {}]
NoInput == [ax |-> 0, ay |-> 0, dir |-> Zero]

Install(g) ==
    /\ score' = g.score
    /\ lives' = g.lives
    /\ isGameOver' = g.isGameOver
    /\ playerShip' = g.playerShip
    /\ playerVelocity' = g.playerVelocity
    /\ playerInvincible' = g.playerInvincible
    /\ playerRespawnTime' = g.playerRespawnTime
    /\ bullets' = g.bullets
    /\ asteroids' = g.asteroids
    /\ lastAsteroidSpawnTime' = g.lastAsteroidSpawnTime
    /\ uniqueId' = g.uniqueId
    /\ host' = g.host
    /\ session' = g.session

Init ==
    /\ script \in Scripts
    /\ clock = StartTime
    /\ score = NewGame.score
    /\ lives = NewGame.lives
    /\ isGameOver = NewGame.isGameOver
    /\ playerShip = NewGame.playerShip
    /\ playerVelocity = NewGame.playerVelocity
    /\ playerInvincible = NewGame.playerInvincible
    /\ playerRespawnTime = NewGame.playerRespawnTime
    /\ bullets = NewGame.bullets
    /\ asteroids = NewGame.asteroids
    /\ lastAsteroidSpawnTime = NewGame.lastAsteroidSpawnTime
    /\ uniqueId = NewGame.uniqueId
    /\ host = NewGame.host
    /\ steps = 0
    /\ session = NewGame.session
    /\ last = [op |-> "createScene", now |-> StartTime, hitBA |-> {}, hitPA |-> {},
               input |-> NoInput, console |-> <<>>, kills |-> <<>>,
               before |-> NewGame]

\* scene.onBeforeRenderObservable: one frame
Tick ==
    /\ steps < MaxSteps
    /\ \E now \in TickTimes :
       \E rnd \in RandomsRead(script, movePlayer(script, State), now) :
         LET mid == beforeCollisions(script, State, now, rnd)
         IN \E h \in EngineResults(mid) :
                 LET g == updateGameLogic(script, State, now, rnd, h.hitBA, h.hitPA)
                 IN /\ Install(g)
                    /\ clock' = now
                    /\ last' = Event("tick", now, h, NoInput, g)
    /\ steps' = steps + 1
    /\ UNCHANGED script

\* the trigger is pressed
Fire ==
    /\ steps < MaxSteps
    /\ \E dir \in Directions :
         LET g == onTriggerPressed(script, State, dir)
         IN /\ Install(g)
            /\ last' = Event("fire", clock, NoResults, NoInput, g)
    /\ steps' = steps + 1
    /\ UNCHANGED <<script, clock>>

\* the left thumbstick moves
Stick ==
    /\ steps < MaxSteps
    /\ \E a \in StickAxes, dir \in Directions :
         LET g == onAxisValueChanged(script, State, a[1], a[2], dir)
         IN /\ Install(g)
            /\ last' = Event("stick", clock, NoResults, [ax |-> a[1], ay |-> a[2], dir |-> dir], g)
    /\ steps' = steps + 1
    /\ UNCHANGED <<script, clock>>

\* the frames of a scripted opening, one updateGameLogic call after the other
\* (the test on uniqueId, which never decreases, has each frame computed
\* before the next one starts)
RECURSIVE Run(_, _, _)
Run(s, g, frames) ==
    IF frames = <<>> THEN g
    ELSE LET h == updateGameLogic(s, g, Head(frames).now, Head(frames).rnd,
                                  Head(frames).hitBA, Head(frames).hitPA)
         IN IF h.uniqueId >= g.uniqueId THEN Run(s, h, Tail(frames)) ELSE h

\* a scripted opening is played from the new scene
Opening ==
    /\ last.op = "createScene"
    /\ \E frames \in Openings :
         LET g == Run(script, State, frames)
         IN /\ Install(g)
            /\ clock' = frames[Len(frames)].now
            /\ last' = Event("opening", frames[Len(frames)].now, NoResults, NoInput, g)
    /\ UNCHANGED <<script, steps>>

Next == Tick \/ Fire \/ Stick \/ Opening

Spec == Init /\ [][Next]_vars

\* The render loop keeps running: frames go on after the steps explored
\* for as long as the player is invincible and the clock has not passed
\* the end of the window (the ship stays at the centre, the spawns take
\* the random numbers of the scripted openings)
FrameDue ==
    \/ steps < MaxSteps
    \/ playerInvincible /\ clock <= playerRespawnTime + RESPAWN_INVINCIBILITY_TIME
LiveTick ==
    /\ FrameDue
    /\ \E now \in TickTimes :
         LET rnd == Frame(now, {}).rnd
             mid == beforeCollisions(script, State, now, rnd)
         IN \E h \in EngineResults(mid) :
                 LET g == updateGameLogic(script, State, now, rnd, h.hitBA, h.hitPA)
                 IN /\ Install(g)
                    /\ clock' = now
                    /\ last' = Event("tick", now, h, NoInput, g)
    /\ steps' = IF steps < MaxSteps THEN steps + 1 ELSE steps
    /\ UNCHANGED script
NextLive == LiveTick \/ Opening
\* runRenderLoop calls updateGameLogic once per frame, for ever: weak
\* fairness of LiveTick, which is enabled exactly when FrameDue holds
KeepsTicking == []<>(~FrameDue) \/ []<><<LiveTick>>_vars
SpecLive == Init /\ [][NextLive]_vars /\ KeepsTicking

\* game.js and the third script, each run from its createScene on the same
\* host library: one that provides every builder, one with the PascalCase
\* names only, one with both casings but no icosahedron builder
TwinScripts == {"game", "third"}
Hosts ==
    {Builders,
     {"CreateCone", "CreateSphere", "CreateIcosahedron", "CreateIcoSphere"},
     Builders \ {"CreateIcosahedron", "createIcosahedron"}}
InitTwin ==
    /\ script \in TwinScripts
    /\ clock = StartTime
    /\ \E h \in Hosts :
          /\ host = h
          /\ playerShip = createScene(script, h).playerShip
    /\ score = NewGame.score
    /\ lives = NewGame.lives
    /\ isGameOver = NewGame.isGameOver
    /\ playerVelocity = NewGame.playerVelocity
    /\ playerInvincible = NewGame.playerInvincible
    /\ playerRespawnTime = NewGame.playerRespawnTime
    /\ bullets = NewGame.bullets
    /\ asteroids = NewGame.asteroids
    /\ lastAsteroidSpawnTime = NewGame.lastAsteroidSpawnTime
    /\ uniqueId = NewGame.uniqueId
    /\ steps = 0
    /\ session = NewGame.session
    /\ last = [op |-> "createScene", now |-> StartTime, hitBA |-> {}, hitPA |-> {},
               input |-> NoInput, console |-> <<>>, kills |-> <<>>,
               before |-> NewGame]
\* a frame, a trigger press, a thumbstick move
TwinSteps == 2
TwinTick ==
    /\ steps < TwinSteps
    /\ \E now \in TickTimes :
       \E rnd \in RandomsRead(script, movePlayer(script, State), now) :
         LET mid == beforeCollisions(script, State, now, rnd)
         IN \E h \in EngineResults(mid) :
                 LET g == updateGameLogic(script, State, now, rnd, h.hitBA, h.hitPA)
                 IN /\ Install(g)
                    /\ clock' = now
                    /\ last' = Event("tick", now, h, NoInput, g)
    /\ steps' = steps + 1
    /\ UNCHANGED script
TwinFire ==
    /\ steps < TwinSteps
    /\ \E dir \in Directions :
         LET g == onTriggerPressed(script, State, dir)
         IN /\ Install(g)
            /\ last' = Event("fire", clock, NoResults, NoInput, g)
    /\ steps' = steps + 1
    /\ UNCHANGED <<script, clock>>
TwinStick ==
    /\ steps < TwinSteps
    /\ \E a \in StickAxes, dir \in Directions :
         LET g == onAxisValueChanged(script, State, a[1], a[2], dir)
         IN /\ Install(g)
            /\ last' = Event("stick", clock, NoResults, [ax |-> a[1], ay |-> a[2], dir |-> dir], g)
    /\ steps' = steps + 1
    /\ UNCHANGED <<script, clock>>
\* the opening that leaves the player on its last life
TwinOpening ==
    /\ last.op = "createScene"
    /\ LET g == Run(script, State, TwoLivesLost)
       IN /\ Install(g)
          /\ clock' = TwoLivesLost[Len(TwoLivesLost)].now
          /\ last' = Event("opening", TwoLivesLost[Len(TwoLivesLost)].now, NoResults, NoInput, g)
    /\ UNCHANGED <<script, steps>>
NextTwin == TwinTick \/ TwinFire \/ TwinStick \/ TwinOpening
SpecTwin == InitTwin /\ [][NextTwin]_vars

\* playerHit() invoked on its own, as a host of the player state machine
\* (or a test of it) would, whatever state the player is in
Hit ==
    /\ steps < MaxSteps
    /\ LET g == playerHit(script, State, clock)
       IN /\ Install(g)
          /\ last' = Event("hit", clock, NoResults, NoInput, g)
    /\ steps' = steps + 1
    /\ UNCHANGED <<script, clock>>

NextHit == Tick \/ Fire \/ Stick \/ Opening \/ Hit
SpecHit == Init /\ [][NextHit]_vars

\* fireBullet() and endGame() invoked on their own, likewise
Shoot ==
    /\ steps < MaxSteps
    /\ \E dir \in Directions :
         LET g == fireBullet(script, State, dir)
         IN /\ Install(g)
            /\ last' = Event("fireBullet", clock, NoResults, NoInput, g)
    /\ steps' = steps + 1
    /\ UNCHANGED <<script, clock>>
Teardown ==
    /\ steps < MaxSteps
    /\ LET g == endGame(script, State)
       IN /\ Install(g)
          /\ last' = Event("endGame", clock, NoResults, NoInput, g)
    /\ steps' = steps + 1
    /\ UNCHANGED <<script, clock>>

\* the functions of the scripts called one by one after an opening
NextCalls == Opening \/ Fire \/ Hit \/ Shoot \/ Teardown
SpecCalls == Init /\ [][NextCalls]_vars

\* wrapAround(playerShip) on its own, for positions on either side of the
\* limit on each axis: where addInPlace(playerVelocity) may leave the ship
WrapCoords(s) ==
    {-WrapLimit(s) - PLAYER_MAX_SPEED, -WrapLimit(s) - 1, -WrapLimit(s),
     0, WrapLimit(s), WrapLimit(s) + 1}
InitWrap ==
    /\ script \in Scripts
    /\ clock = StartTime
    /\ score = NewGame.score
    /\ lives = NewGame.lives
    /\ isGameOver = NewGame.isGameOver
    /\ \E x, y, z \in WrapCoords(script) :
          playerShip = [NewGame.playerShip EXCEPT !.position = <<x, y, z>>]
    /\ playerVelocity = NewGame.playerVelocity
    /\ playerInvincible = NewGame.playerInvincible
    /\ playerRespawnTime = NewGame.playerRespawnTime
    /\ bullets = NewGame.bullets
    /\ asteroids = NewGame.asteroids
    /\ lastAsteroidSpawnTime = NewGame.lastAsteroidSpawnTime
    /\ uniqueId = NewGame.uniqueId
    /\ host = NewGame.host
    /\ steps = 0
    /\ session = NewGame.session
    /\ last = [op |-> "createScene", now |-> StartTime, hitBA |-> {}, hitPA |-> {},
               input |-> NoInput, console |-> <<>>, kills |-> <<>>,
               before |-> NewGame]
Wrap ==
    /\ steps < MaxSteps
    /\ LET g == [State EXCEPT !.playerShip.position = wrapAround(script, @)]
       IN /\ Install(g)
          /\ last' = Event("wrapAround", clock, NoResults, NoInput, g)
    /\ steps' = steps + 1
    /\ UNCHANGED <<script, clock>>
SpecWrap == InitWrap /\ [][Wrap]_vars

\* Ticks of a game found with bullets late in their life: at rest or in
\* flight at the centre, or in flight on the cull limit; one or two of them,
\* and the player on its first or its last life
BulletsInFlight(s) ==
    {[position |-> pv[1], velocity |-> pv[2], life |-> n] :
        pv \in {<<Zero, Zero>>,
                <<Zero, <<BULLET_SPEED(s), 0, 0>> >>,
                << <<PLAY_AREA_SIZE + CullMargin(s), 0, 0>>, <<BULLET_SPEED(s), 0, 0>> >>},
        n \in {1, 2}}
Numbered(bs) == [k \in 1..Len(bs) |-> [id |-> k, position |-> bs[k].position,
                                        velocity |-> bs[k].velocity, life |-> bs[k].life,
                                        disposed |-> FALSE]]
InitEntities ==
    /\ script \in Scripts
    /\ clock = StartTime
    /\ score = NewGame.score
    /\ lives \in {1, INITIAL_LIVES}
    /\ isGameOver = NewGame.isGameOver
    /\ playerShip = NewGame.playerShip
    /\ playerVelocity = NewGame.playerVelocity
    /\ playerInvincible = NewGame.playerInvincible
    /\ playerRespawnTime = NewGame.playerRespawnTime
    /\ \E n \in 1..2 : \E bs \in [1..n -> BulletsInFlight(script)] :
          bullets = Numbered(bs) /\ uniqueId = n
    /\ asteroids = NewGame.asteroids
    /\ lastAsteroidSpawnTime = NewGame.lastAsteroidSpawnTime
    /\ host = NewGame.host
    /\ steps = 0
    /\ session = [NewGame.session EXCEPT !.hits = INITIAL_LIVES - lives]
    /\ last = [op |-> "createScene", now |-> StartTime, hitBA |-> {}, hitPA |-> {},
               input |-> NoInput, console |-> <<>>, kills |-> <<>>,
               before |-> NewGame]
\* one frame, a millisecond after the last, with the random numbers of
\* the scripted openings
Advance ==
    /\ steps < MaxSteps
    /\ LET f == Frame(clock + 1, {})
           mid == beforeCollisions(script, State, f.now, f.rnd)
       IN \E h \in EngineResults(mid) :
            LET g == updateGameLogic(script, State, f.now, f.rnd, h.hitBA, h.hitPA)
            IN /\ Install(g)
               /\ clock' = f.now
               /\ last' = Event("tick", f.now, h, NoInput, g)
    /\ steps' = steps + 1
    /\ UNCHANGED script
SpecEntities == InitEntities /\ [][Advance]_vars

\* Ticks of a game found with the ship at the centre or a tick's flight
\* from the wrap limit, after bursts of forward thrust between two frames
ShipPositions(s) ==
    {Zero, <<WrapLimit(s) - PLAYER_MAX_SPEED \div 2, 0, 0>>,
     <<0, 0, -WrapLimit(s)>>}
Bursts == {1, 80}
\* n thumbstick events in a row, the stick held where it is
RECURSIVE Thrusts(_, _, _, _, _, _)
Thrusts(s, g, ax, ay, dir, n) ==
    IF n = 0 THEN g
    ELSE LET h == onAxisValueChanged(s, g, ax, ay, dir)
         IN IF h.uniqueId >= g.uniqueId THEN Thrusts(s, h, ax, ay, dir, n - 1) ELSE h
InitPlayer ==
    /\ script \in Scripts
    /\ clock = StartTime
    /\ score = NewGame.score
    /\ lives = NewGame.lives
    /\ isGameOver = NewGame.isGameOver
    /\ \E p \in ShipPositions(script) :
          playerShip = [NewGame.playerShip EXCEPT !.position = p]
    /\ playerVelocity = NewGame.playerVelocity
    /\ playerInvincible = NewGame.playerInvincible
    /\ playerRespawnTime = NewGame.playerRespawnTime
    /\ bullets = NewGame.bullets
    /\ asteroids = NewGame.asteroids
    /\ lastAsteroidSpawnTime = NewGame.lastAsteroidSpawnTime
    /\ uniqueId = NewGame.uniqueId
    /\ host = NewGame.host
    /\ steps = 0
    /\ session = NewGame.session
    /\ last = [op |-> "createScene", now |-> StartTime, hitBA |-> {}, hitPA |-> {},
               input |-> NoInput, console |-> <<>>, kills |-> <<>>,
               before |-> NewGame]
Burst ==
    /\ steps < MaxSteps
    /\ \E n \in Bursts, a \in {b \in StickAxes : b[2] < 0}, dir \in Directions :
         LET g == Thrusts(script, State, a[1], a[2], dir, n)
         IN /\ Install(g)
            /\ last' = Event("stick", clock, NoResults, [ax |-> a[1], ay |-> a[2], dir |-> dir], g)
    /\ steps' = steps + 1
    /\ UNCHANGED <<script, clock>>
\* one frame, a millisecond or a spawn interval after the last, the spawned
\* asteroids slow
FlyTimes == {clock + 1, clock + Spawning}
Fly ==
    /\ steps < MaxSteps
    /\ \E now \in FlyTimes :
       \E rnd \in {r \in RandomsRead(script, movePlayer(script, State), now) : r.speed = 0} :
         LET mid == beforeCollisions(script, State, now, rnd)
         IN \E h \in EngineResults(mid) :
                 LET g == updateGameLogic(script, State, now, rnd, h.hitBA, h.hitPA)
                 IN /\ Install(g)
                    /\ clock' = now
                    /\ last' = Event("tick", now, h, NoInput, g)
    /\ steps' = steps + 1
    /\ UNCHANGED script
NextPlayer == Burst \/ Fly
SpecPlayer == InitPlayer /\ [][NextPlayer]_vars

\* The asteroid integrator on its own: one asteroid on the face x =
\* PLAY_AREA_SIZE, aimed at the origin at the lowest or the highest speed,
\* advanced one updateAsteroids call after the other
DriftTicks == 751
DriftStart == <<PLAY_AREA_SIZE, 0, 0>>
InitDrift ==
    /\ script \in Scripts
    /\ clock = StartTime
    /\ score = NewGame.score
    /\ lives = NewGame.lives
    /\ isGameOver = NewGame.isGameOver
    /\ playerShip = NewGame.playerShip
    /\ playerVelocity = NewGame.playerVelocity
    /\ playerInvincible = NewGame.playerInvincible
    /\ playerRespawnTime = NewGame.playerRespawnTime
    /\ bullets = NewGame.bullets
    /\ \E speed \in {ASTEROID_MIN_SPEED, ASTEROID_MAX_SPEED} :
          asteroids = <<[id |-> 1, position |-> DriftStart,
                         velocity |-> NormalizeScale(VSub(Zero, DriftStart), speed),
                         size |-> 100, disposed |-> FALSE]>>
    /\ lastAsteroidSpawnTime = NewGame.lastAsteroidSpawnTime
    /\ uniqueId = 1
    /\ host = NewGame.host
    /\ steps = 0
    /\ session = NewGame.session
    /\ last = [op |-> "createScene", now |-> StartTime, hitBA |-> {}, hitPA |-> {},
               input |-> NoInput, console |-> <<>>, kills |-> <<>>,
               before |-> NewGame]
Drift ==
    /\ steps < DriftTicks
    /\ LET g == updateAsteroids(script, State)
       IN /\ Install(g)
          /\ last' = Event("updateAsteroids", clock, NoResults, NoInput, g)
    /\ steps' = steps + 1
    /\ UNCHANGED <<script, clock>>
SpecDrift == InitDrift /\ [][Drift]_vars

\* Ticks of a game found with the ship and an asteroid about to cross the
\* wrap limit: the ship at the centre or a tick's flight from the limit,
\* at rest or at PLAYER_MAX_SPEED along an axis; the asteroid on the limit,
\* leaving at ASTEROID_MAX_SPEED or coming in at ASTEROID_MIN_SPEED; no
\* bullet, or one half way through its life and a tick's flight from the
\* cull limit
ShipVelocities == {Zero, <<PLAYER_MAX_SPEED, 0, 0>>, <<0, 0, -PLAYER_MAX_SPEED>>}
AsteroidsAdrift(s) ==
    {[position |-> <<WrapLimit(s), 0, 0>>, velocity |-> <<ASTEROID_MAX_SPEED, 0, 0>>],
     [position |-> <<0, -WrapLimit(s), WrapLimit(s)>>,
      velocity |-> <<0, -ASTEROID_MIN_SPEED, -ASTEROID_MIN_SPEED>>]}
BoundsTicks == 2
BulletsAdrift(s) ==
    {<<>>,
     <<[id |-> 2,
        position |-> <<PLAY_AREA_SIZE + CullMargin(s) - BULLET_SPEED(s), 0, 0>>,
        velocity |-> <<BULLET_SPEED(s), 0, 0>>,
        life |-> BULLET_LIFETIME(s) \div 2,
        disposed |-> FALSE]>>}
InitBounds ==
    /\ script \in Scripts
    /\ clock = StartTime
    /\ score = NewGame.score
    /\ lives = NewGame.lives
    /\ isGameOver = NewGame.isGameOver
    /\ \E p \in ShipPositions(script) :
          playerShip = [NewGame.playerShip EXCEPT !.position = p]
    /\ playerVelocity \in ShipVelocities
    /\ playerInvincible = NewGame.playerInvincible
    /\ playerRespawnTime = NewGame.playerRespawnTime
    /\ bullets \in BulletsAdrift(script)
    /\ \E a \in AsteroidsAdrift(script) :
          asteroids = <<[id |-> 1, position |-> a.position, velocity |-> a.velocity,
                         size |-> 100, disposed |-> FALSE]>>
    /\ lastAsteroidSpawnTime = StartTime
    /\ uniqueId = 2
    /\ host = NewGame.host
    /\ steps = 0
    /\ session = NewGame.session
    /\ last = [op |-> "createScene", now |-> StartTime, hitBA |-> {}, hitPA |-> {},
               input |-> NoInput, console |-> <<>>, kills |-> <<>>,
               before |-> NewGame]
\* one frame, a millisecond or a spawn interval after the last, the spawned
\* asteroids fast
Roam ==
    /\ steps < BoundsTicks
    /\ \E now \in FlyTimes :
       \E rnd \in {r \in RandomsRead(script, movePlayer(script, State), now) : r.speed = 100} :
         LET mid == beforeCollisions(script, State, now, rnd)
         IN \E h \in EngineResults(mid) :
                 LET g == updateGameLogic(script, State, now, rnd, h.hitBA, h.hitPA)
                 IN /\ Install(g)
                    /\ clock' = now
                    /\ last' = Event("tick", now, h, NoInput, g)
    /\ steps' = steps + 1
    /\ UNCHANGED script
\* the trigger is pressed
Press ==
    /\ steps < BoundsTicks
    /\ \E dir \in Directions :
         LET g == onTriggerPressed(script, State, dir)
         IN /\ Install(g)
            /\ last' = Event("fire", clock, NoResults, NoInput, g)
    /\ steps' = steps + 1
    /\ UNCHANGED <<script, clock>>
NextBounds == Roam \/ Press
SpecBounds == InitBounds /\ [][NextBounds]_vars

\* The life of a salvo: from the new scene or on the last life, the trigger
\* is pressed up to Salvo times before the next frame, and the frames follow a
\* millisecond apart, with the random numbers of the scripted openings,
\* until the longest bullet life has run out
FlightTicks == 81
Salvo == 1
Shot ==
    /\ steps = 0
    /\ Len(bullets) < Salvo
    /\ \E dir \in Directions :
         LET g == onTriggerPressed(script, State, dir)
         IN /\ Install(g)
            /\ last' = Event("fire", clock, NoResults, NoInput, g)
    /\ UNCHANGED <<script, clock, steps>>
AgeDue == steps < FlightTicks
Age ==
    /\ AgeDue
    /\ LET f == Frame(clock + 1, {})
           mid == beforeCollisions(script, State, f.now, f.rnd)
       IN \E h \in EngineResults(mid) :
            LET g == updateGameLogic(script, State, f.now, f.rnd, h.hitBA, h.hitPA)
            IN /\ Install(g)
               /\ clock' = f.now
               /\ last' = Event("tick", f.now, h, NoInput, g)
    /\ steps' = steps + 1
    /\ UNCHANGED script
NextFlight == TwinOpening \/ Shot \/ Age
\* the render loop calls updateGameLogic once per frame, for ever: weak
\* fairness of Age, which is enabled exactly when AgeDue holds
FramesFollow == []<>(~AgeDue) \/ []<><<Age>>_vars
SpecFlight == Init /\ [][NextFlight]_vars /\ FramesFollow

\* Ticks of a game found with one or two bullets at the centre, each in
\* the last or the last but one tick of its life, and two asteroids; the
\* engine may report any intersections between them and the ship
ClashTicks == 1
AsteroidsAround ==
    <<[id |-> 1, position |-> <<100, 0, 0>>, velocity |-> <<-ASTEROID_MIN_SPEED, 0, 0>>,
       size |-> 100, disposed |-> FALSE],
      [id |-> 2, position |-> <<0, 0, 100>>, velocity |-> <<0, 0, -ASTEROID_MIN_SPEED>>,
       size |-> 300, disposed |-> FALSE]>>
BulletsAround(s) ==
    {[position |-> Zero, velocity |-> <<BULLET_SPEED(s), 0, 0>>, life |-> n] : n \in {1, 2}}
InitClash ==
    /\ script \in Scripts
    /\ clock = StartTime
    /\ score = NewGame.score
    /\ lives = NewGame.lives
    /\ isGameOver = NewGame.isGameOver
    /\ playerShip = NewGame.playerShip
    /\ playerVelocity = NewGame.playerVelocity
    /\ playerInvincible = NewGame.playerInvincible
    /\ playerRespawnTime = NewGame.playerRespawnTime
    /\ \E n \in 1..2 : \E bs \in [1..n -> BulletsAround(script)] :
          /\ bullets = [k \in 1..n |-> [Numbered(bs)[k] EXCEPT !.id = Len(AsteroidsAround) + k]]
          /\ uniqueId = Len(AsteroidsAround) + n
    /\ asteroids = AsteroidsAround
    /\ lastAsteroidSpawnTime = StartTime
    /\ host = NewGame.host
    /\ steps = 0
    /\ session = NewGame.session
    /\ last = [op |-> "createScene", now |-> StartTime, hitBA |-> {}, hitPA |-> {},
               input |-> NoInput, console |-> <<>>, kills |-> <<>>,
               before |-> NewGame]
AnyResults(g) ==
    [hitBA : SUBSET (Ids(g.bullets) \X Ids(g.asteroids)), hitPA : SUBSET Ids(g.asteroids)]
\* one frame, a millisecond after the last
Clash ==
    /\ steps < ClashTicks
    /\ LET f == Frame(clock + 1, {})
           mid == beforeCollisions(script, State, f.now, f.rnd)
       IN \E h \in AnyResults(mid) :
            LET g == updateGameLogic(script, State, f.now, f.rnd, h.hitBA, h.hitPA)
            IN /\ Install(g)
               /\ clock' = f.now
               /\ last' = Event("tick", f.now, h, NoInput, g)
    /\ steps' = steps + 1
    /\ UNCHANGED script
SpecClash == InitClash /\ [][Clash]_vars

\* The do-while loop of setupAsteroid on its own, one iteration per step:
\* the canonical script has called createAsteroid with the ship somewhere
\* in the wrap box (on its walls, on the faces of the play area, on the
\* edge of the spawn range, at the centre); each iteration draws a position
\* over the whole range of Math.random(); the statement after the loop
\* places the asteroid
SpawnFaceDraws ==
    [r : {-100, 0, 99} \X {-100, 0, 99} \X {-100, 0, 99}, axis : 0..2, side : {-1, 1}]
SpawnCoords(s) == {-WrapLimit(s), -EdgeDist(s), 0, PLAY_AREA_SIZE, WrapLimit(s)}
InitSpawn ==
    /\ script = "canonical"
    /\ clock = StartTime
    /\ score = NewGame.score
    /\ lives = NewGame.lives
    /\ isGameOver = NewGame.isGameOver
    /\ \E x, y, z \in SpawnCoords(script) :
          playerShip = [NewGame.playerShip EXCEPT !.position = <<x, y, z>>]
    /\ playerVelocity = NewGame.playerVelocity
    /\ playerInvincible = NewGame.playerInvincible
    /\ playerRespawnTime = NewGame.playerRespawnTime
    /\ bullets = NewGame.bullets
    /\ asteroids = NewGame.asteroids
    /\ lastAsteroidSpawnTime = NewGame.lastAsteroidSpawnTime
    /\ uniqueId = NewGame.uniqueId
    /\ host = NewGame.host
    /\ steps = 0
    /\ session = NewGame.session
    /\ last = [op |-> "createAsteroid", now |-> StartTime, hitBA |-> {}, hitPA |-> {},
               input |-> NoInput, console |-> <<>>, kills |-> <<>>,
               before |-> NewGame]
\* spawnPos, once the loop body has run
spawnPos == last.input.dir
\* the loop body is about to run: for the first time, or because the while
\* condition holds
InLoop ==
    \/ last.op = "createAsteroid"
    \/ last.op = "draw" /\ TooClose(script, State, spawnPos)
\* the loop body with the random numbers d; steps counts the iterations, up
\* to MaxSamples
DrawOf(d) ==
    /\ InLoop
    /\ Install(State)
    /\ last' = Event("draw", clock, NoResults,
                     [ax |-> 0, ay |-> 0, dir |-> SpawnPos(script, d)], State)
    /\ steps' = IF steps < MaxSamples THEN steps + 1 ELSE steps
    /\ UNCHANGED <<script, clock>>
Draw == \E d \in SpawnFaceDraws : DrawOf(d)
\* a draw that is not too close to the ship
DrawFar == \E d \in SpawnFaceDraws : ~TooClose(script, State, SpawnPos(script, d)) /\ DrawOf(d)
\* the loop has ended: asteroid.position = spawnPos and the rest of
\* setupAsteroid
PlaceDue == last.op = "draw" /\ ~TooClose(script, State, spawnPos)
Place ==
    /\ PlaceDue
    /\ \E d \in SpawnFaceDraws :
          /\ SpawnPos(script, d) = spawnPos
          /\ LET g == setupAsteroid(script, State,
                          [size |-> 100, speed |-> 0, t |-> Zero, draws |-> <<d>>])
             IN /\ Install(g)
                /\ last' = Event("setupAsteroid", clock, NoResults, last.input, g)
    /\ UNCHANGED <<script, clock, steps>>
NextSpawn == Draw \/ Place
\* Math.random() is fair: a draw that is possible at every iteration comes
\* in the end (weak fairness of DrawFar, which is enabled exactly when
\* DrawFarDue holds); and the script goes on after the loop (weak fairness
\* of Place, enabled exactly when PlaceDue holds)
DrawFarDue ==
    InLoop /\ \E d \in SpawnFaceDraws : ~TooClose(script, State, SpawnPos(script, d))
FairDraws ==
    /\ []<>(~DrawFarDue) \/ []<><<DrawFar>>_vars
    /\ []<>(~PlaceDue) \/ []<><<Place>>_vars
SpecSpawn == InitSpawn /\ [][NextSpawn]_vars /\ FairDraws

---------------------------------------------------------------------------
(* Properties *)

Logged(msg) == \E k \in 1..Len(last.console) : last.console[k] = msg
\* the last event was a tick in which an asteroid struck the player
StruckInTick == last.op = "tick" /\ Logged("Player hit by asteroid!")
\* the player states of the life cycle
Alive == ShipEnabled(State) /\ ~playerInvincible /\ ~isGameOver
Invincible == playerInvincible /\ ~playerShip.isNull /\ ~playerShip.enabled /\ ~isGameOver
Dead == playerShip.isNull /\ isGameOver /\ lives = 0
invincibleUntil(r) == r + RESPAWN_INVINCIBILITY_TIME

\* C1: the number of live asteroids never exceeds ASTEROID_MAX_COUNT, in
\* every reachable state.
C1_AsteroidCap == Len(asteroids) <= ASTEROID_MAX_COUNT
\* the array is full after a tick whose spawn interval had elapsed
C1_FullAndDue ==
    /\ last.op = "tick"
    /\ Len(asteroids) = ASTEROID_MAX_COUNT
    /\ last.now > lastAsteroidSpawnTime + ASTEROID_SPAWN_INTERVAL
    /\ ~isGameOver

\* C2: in the canonical script, a bullet and an asteroid whose bounding
\* spheres intersect during a tick are both destroyed in that tick (no
\* intersecting pair is left intact, every pair destroyed loses both
\* members), and the score grows by exactly 100 per pair destroyed.
C2_OverlapDestroysBoth ==
    (script = "canonical" /\ last.op = "tick") =>
        /\ \A p \in last.hitBA : p[1] \notin Ids(bullets) \/ p[2] \notin Ids(asteroids)
        /\ \A k \in 1..Len(last.kills) :
              last.kills[k][1] \notin Ids(bullets) /\ last.kills[k][2] \notin Ids(asteroids)
        /\ score = last.before.score + 100 * Len(last.kills)

\* C3: lives never increases, and 0 <= lives <= INITIAL_LIVES in every
\* reachable state.
C3_LivesRange ==
    /\ 0 <= lives /\ lives <= INITIAL_LIVES
    /\ lives <= last.before.lives
\* the last life has just been lost
C3_LastLifeLost == last.op = "tick" /\ last.before.lives = 1 /\ lives = 0

\* C4: at the end of every tick (and of every controller event between
\* ticks), lives = 0 exactly when isGameOver is true.
C4_ZeroLivesIffGameOver == (lives = 0) <=> isGameOver
\* the tick in which the last life is lost and the game ends
C4_EndingTick ==
    StruckInTick /\ Logged("Game Over!") /\ lives = 0 /\ isGameOver

\* C5: isGameOver is monotonic: once true it is never false again.
C5_GameOverMonotonic == [][isGameOver => isGameOver']_vars
\* a tick and a trigger press that found the game over
C5_TickAfterGameOver == last.op \in {"tick", "fire"} /\ last.before.isGameOver /\ isGameOver

\* C6: from lives = 3, the player is Dead (ship disposed, isGameOver true,
\* lives 0) exactly when playerHit has run three times, never more, and the
\* game-over teardown has then taken effect exactly once (and not at all
\* before).
C6_ThreeHitsToDead ==
    /\ session.hits <= INITIAL_LIVES
    /\ lives = INITIAL_LIVES - session.hits
    /\ IF session.hits = INITIAL_LIVES
       THEN Dead /\ session.gameOvers = 1 /\ asteroids = <<>> /\ bullets = <<>>
       ELSE ~isGameOver /\ session.gameOvers = 0 /\ ~playerShip.isNull
\* a tick further after the third hit
C6_DeadAfterThree ==
    session.hits = INITIAL_LIVES /\ last.op = "tick" /\ last.before.isGameOver

\* C7: Dead is terminal: no event leaves it, and a further call of
\* playerHit is a no-op that leaves lives and the rest of the state
\* unchanged.
C7_HitWhenDeadIsNoOp ==
    (last.before.isGameOver /\ last.before.lives = 0 /\ last.before.playerShip.isNull) =>
        /\ Dead
        /\ lives = last.before.lives
        /\ score = last.before.score
        /\ playerVelocity = last.before.playerVelocity
        /\ playerInvincible = last.before.playerInvincible
        /\ playerRespawnTime = last.before.playerRespawnTime
        /\ last.console = <<>>

\* C8, as stated: after a hit, the tick with now = invincibleUntil - 1
\* leaves the player Invincible and the tick with now = invincibleUntil
\* returns it to Alive.
C8_AliveAtDeadline ==
    (last.op = "tick" /\ last.before.playerInvincible) =>
        /\ last.now = invincibleUntil(last.before.playerRespawnTime) - 1 => Invincible
        /\ last.now = invincibleUntil(last.before.playerRespawnTime) => Alive
\* C8, amended: a tick with now <= invincibleUntil (invincibleUntil - 1 and
\* invincibleUntil itself) leaves the player Invincible, with the same
\* deadline; a tick with now > invincibleUntil (invincibleUntil + 1 the
\* first) returns it to Alive.
C8_AliveAfterDeadline ==
    (last.op = "tick" /\ last.before.playerInvincible) =>
        IF last.now > invincibleUntil(last.before.playerRespawnTime)
        THEN Alive
        ELSE Invincible /\ playerRespawnTime = last.before.playerRespawnTime
\* the tick at the deadline itself, the player still invincible
C8_StillInvincibleAtDeadline ==
    /\ last.op = "tick" /\ last.before.playerInvincible
    /\ last.now = invincibleUntil(last.before.playerRespawnTime)
    /\ Invincible

\* C9: while playerInvincible is true a tick handles no player-asteroid
\* collision, even when an asteroid overlaps the player (no life lost, no
\* hit reported), and playerRespawnTime is the time of the hit that made
\* the player invincible.
C9_InvincibleNotStruck ==
    /\ playerInvincible => playerRespawnTime = session.hitAt
    /\ (last.op = "tick" /\ last.before.playerInvincible) =>
          /\ lives = last.before.lives
          /\ ~Logged("Player hit by asteroid!")
\* an asteroid overlapped the invincible player during a tick
C9_OverlapWhileInvincible ==
    /\ last.op = "tick" /\ last.before.playerInvincible
    /\ last.hitPA # {}
    /\ playerInvincible

\* C10: a hit while Alive takes one life and zeroes the velocity; with lives
\* left the ship is back at the origin with yaw 0 and the player is
\* Invincible with invincibleUntil = now + RESPAWN_INVINCIBILITY_TIME;
\* with none left the player is Dead and the game over.
C10_HitWhileAlive ==
    StruckInTick =>
        /\ ~last.before.playerInvincible /\ ~last.before.isGameOver
        /\ last.before.playerShip.enabled
        /\ lives = last.before.lives - 1
        /\ playerVelocity = Zero
        /\ IF lives > 0
           THEN /\ Invincible
                /\ playerShip.position = Zero /\ playerShip.rotationY = 0
                /\ playerRespawnTime = last.now
                /\ invincibleUntil(playerRespawnTime) = last.now + RESPAWN_INVINCIBILITY_TIME
           ELSE Dead /\ ~playerInvincible
\* a turned, moving ship was struck and respawned
C10_MovingShipStruck ==
    /\ StruckInTick /\ lives > 0
    /\ last.before.playerShip.rotationY # 0
    /\ last.before.playerVelocity # Zero

\* C11: a thumbstick input applied while the player is Invincible (rotation
\* beyond the dead zone, forward thrust) changes the heading and the
\* velocity exactly as the same input does when the ship is enabled.
C11_ControllableWhileInvincible ==
    (last.op = "stick" /\ last.before.playerInvincible) =>
        LET asAlive == Thrust(script, Rotate(last.before, last.input.ax),
                              last.input.ay, last.input.dir)
        IN /\ playerShip.rotationY = asAlive.playerShip.rotationY
           /\ playerVelocity = asAlive.playerVelocity

\* the game as the last event found it, without the bookkeeping
Program(g) ==
    [score |-> g.score, lives |-> g.lives, isGameOver |-> g.isGameOver,
     playerShip |-> g.playerShip, playerVelocity |-> g.playerVelocity,
     playerInvincible |-> g.playerInvincible, playerRespawnTime |-> g.playerRespawnTime,
     bullets |-> g.bullets, asteroids |-> g.asteroids,
     lastAsteroidSpawnTime |-> g.lastAsteroidSpawnTime]
WasAlive == ShipEnabled(last.before) /\ ~last.before.playerInvincible /\ ~last.before.isGameOver

\* C12: fire (the trigger handler, or fireBullet called on its own) adds
\* exactly one bullet when the player is Alive and changes nothing when it
\* is not (Invincible, or Dead after game over): bullets, asteroids, score,
\* lives and the player state stay as they were.
C12_FireOnlyWhenAlive ==
    (last.op \in {"fire", "fireBullet"}) =>
        IF WasAlive
        THEN /\ Len(bullets) = Len(last.before.bullets) + 1
             /\ SubSeq(bullets, 1, Len(last.before.bullets)) = last.before.bullets
             /\ bullets[Len(bullets)].id \notin Ids(last.before.bullets)
             /\ Program([State EXCEPT !.bullets = last.before.bullets]) = Program(last.before)
        ELSE Program(State) = Program(last.before)
\* fireBullet was called while the player was Invincible
C12_ShotWhileInvincible ==
    /\ last.op = "fireBullet"
    /\ last.before.playerInvincible /\ ~last.before.isGameOver
    /\ bullets = last.before.bullets

\* C13: bullets fired between the same two ticks are distinct bullets, each
\* with its own life counter starting at BULLET_LIFETIME: firing leaves
\* the counters of the bullets in flight alone, and a tick takes exactly
\* one unit from every bullet it keeps, whatever happens to the others.
C13_IndependentLifeCounters ==
    /\ \A i, j \in 1..Len(bullets) : i # j => bullets[i].id # bullets[j].id
    /\ (last.op = "fire" /\ WasAlive) =>
          /\ bullets[Len(bullets)].life = BULLET_LIFETIME(script)
          /\ SubSeq(bullets, 1, Len(bullets) - 1) = last.before.bullets
    /\ last.op = "tick" =>
          \A i \in 1..Len(bullets) :
             \E j \in 1..Len(last.before.bullets) :
                /\ last.before.bullets[j].id = bullets[i].id
                /\ bullets[i].life = last.before.bullets[j].life - 1
\* of two bullets fired between the same two ticks, the next tick removed
\* one and aged the other
C13_OneOfTwoRemoved ==
    /\ last.op = "tick"
    /\ Len(last.before.bullets) = 2
    /\ \A j \in 1..2 : last.before.bullets[j].life = BULLET_LIFETIME(script)
    /\ Len(bullets) = 1
    /\ bullets[1].life = BULLET_LIFETIME(script) - 1

\* the last event was a tick that created an asteroid
SpawnedInTick == last.op = "tick" /\ uniqueId > last.before.uniqueId
\* what the spawn test reads besides the clock
RoomToSpawn == Len(last.before.asteroids) < ASTEROID_MAX_COUNT /\ ~last.before.isGameOver

\* C14, as stated: a tick spawns an asteroid (exactly one, setting
\* lastAsteroidSpawnTime = now) if and only if now - lastAsteroidSpawnTime
\* >= ASTEROID_SPAWN_INTERVAL, the count is below ASTEROID_MAX_COUNT and
\* the game is not over; so a tick exactly at the interval spawns.
C14_SpawnFromInterval ==
    last.op = "tick" =>
        /\ SpawnedInTick <=>
              (last.now - last.before.lastAsteroidSpawnTime >= ASTEROID_SPAWN_INTERVAL
               /\ RoomToSpawn)
        /\ SpawnedInTick =>
              /\ uniqueId = last.before.uniqueId + 1
              /\ ~isGameOver => lastAsteroidSpawnTime = last.now
\* C14, amended: a tick spawns an asteroid (exactly one, setting
\* lastAsteroidSpawnTime = now, unless the same tick ends the game) if and
\* only if now - lastAsteroidSpawnTime > ASTEROID_SPAWN_INTERVAL, the count
\* is below ASTEROID_MAX_COUNT and the game is not over; a tick exactly at
\* the interval does not spawn.
C14_SpawnAfterInterval ==
    last.op = "tick" =>
        /\ SpawnedInTick <=>
              (last.now - last.before.lastAsteroidSpawnTime > ASTEROID_SPAWN_INTERVAL
               /\ RoomToSpawn)
        /\ SpawnedInTick =>
              /\ uniqueId = last.before.uniqueId + 1
              /\ ~isGameOver => lastAsteroidSpawnTime = last.now
        /\ ~SpawnedInTick /\ ~isGameOver =>
              lastAsteroidSpawnTime = last.before.lastAsteroidSpawnTime
\* a tick exactly at the interval, with room to spawn, spawned nothing
C14_NothingAtInterval ==
    /\ last.op = "tick"
    /\ last.now - last.before.lastAsteroidSpawnTime = ASTEROID_SPAWN_INTERVAL
    /\ RoomToSpawn
    /\ ~SpawnedInTick

\* C15: the game-over teardown is idempotent: from every reachable state,
\* endGame run twice leaves the same isGameOver, bullets, asteroids, ship,
\* spawn clock, score and lives as endGame run once; and endGame called
\* when the game is already over changes none of them.
C15_TeardownIdempotent ==
    /\ Program(endGame(script, endGame(script, State))) = Program(endGame(script, State))
    /\ (last.op = "endGame" /\ last.before.isGameOver) =>
          Program(State) = Program(last.before)
\* endGame was called once more after the game was over, and ran in full
C15_TornDownTwice ==
    /\ last.op = "endGame" /\ last.before.isGameOver
    /\ Logged("Game Over!")

\* times at which a later tick may read the clock
LaterTimes == {clock + 1, clock + ASTEROID_SPAWN_INTERVAL + 1, clock + 1000 * ASTEROID_SPAWN_INTERVAL}

\* C16: once the game-over teardown has run, isGameOver is true, bullets
\* and asteroids are both empty, and the spawn clock is frozen (at Infinity
\* in the canonical script, at its last value otherwise): no later tick,
\* whenever it comes, spawns an asteroid.
C16_NothingAfterTeardown ==
    /\ session.gameOvers > 0 => isGameOver
    /\ isGameOver =>
          /\ bullets = <<>> /\ asteroids = <<>>
          /\ script = "canonical" => lastAsteroidSpawnTime = Infinity
          /\ \A now \in LaterTimes : \A rnd \in SpawnRandoms :
                LET g == updateGameLogic(script, State, now, rnd, {}, {})
                IN g.asteroids = <<>> /\ g.lastAsteroidSpawnTime = lastAsteroidSpawnTime
    /\ (last.op = "tick" /\ last.before.isGameOver) =>
          /\ ~SpawnedInTick
          /\ lastAsteroidSpawnTime = last.before.lastAsteroidSpawnTime
\* a tick came after the teardown, later than the spawn interval
C16_LateTickAfterTeardown ==
    /\ last.op = "tick" /\ last.before.isGameOver
    /\ last.now > last.before.lastAsteroidSpawnTime + ASTEROID_SPAWN_INTERVAL
    /\ asteroids = <<>>

\* C17: wrapAround is an exact teleport, axis by axis: a coordinate above
\* +limit becomes -limit, one below -limit becomes +limit, and one within
\* [-limit, +limit] (the limits included) is left as it is, whatever the
\* other two coordinates are (limit = PLAY_AREA_SIZE + buffer).
C17_WrapIsExactTeleport ==
    last.op = "wrapAround" =>
        \A k \in 1..3 :
            LET c0 == last.before.playerShip.position[k]
                c == playerShip.position[k]
                limit == WrapLimit(script)
            IN /\ c0 > limit => c = -limit
               /\ c0 < -limit => c = limit
               /\ (-limit <= c0 /\ c0 <= limit) => c = c0
\* one coordinate beyond each limit and one on the limit itself
C17_WrappedOnTwoAxes ==
    /\ last.op = "wrapAround"
    /\ last.before.playerShip.position[1] > WrapLimit(script)
    /\ last.before.playerShip.position[2] < -WrapLimit(script)
    /\ last.before.playerShip.position[3] = WrapLimit(script)
    /\ playerShip.position = <<-WrapLimit(script), WrapLimit(script), WrapLimit(script)>>

\* the bullets the last event found, and what became of each
BulletsBefore == {last.before.bullets[j] : j \in 1..Len(last.before.bullets)}
Gone(b) == b.id \notin Ids(bullets)
Collided(b) == \E k \in 1..Len(last.kills) : last.kills[k][1] = b.id
Expired(b) == b.life <= 1
Culled(b) == isOutOfBounds(script, VAdd(b.position, b.velocity))
TornDown == isGameOver /\ ~last.before.isGameOver

\* C18: a bullet whose remaining life is 1 at the start of a tick is
\* removed during that tick, wherever it is and however it moves (even
\* at rest); a bullet with more life left is not removed unless it is
\* culled out of bounds, destroyed by a collision or torn down.
C18_LastTickOfLife ==
    last.op = "tick" =>
        \A b \in BulletsBefore :
            /\ b.life = 1 => Gone(b)
            /\ (b.life > 1 /\ Gone(b)) => Culled(b) \/ Collided(b) \/ TornDown
            /\ (b.life > 1 /\ ~Gone(b)) =>
                  \E k \in 1..Len(bullets) : bullets[k].id = b.id /\ bullets[k].life = b.life - 1
\* a bullet at rest with one unit of life was removed, one with two was kept
C18_RestingBulletExpired ==
    /\ last.op = "tick" /\ ~isGameOver /\ last.kills = <<>>
    /\ \E b \in BulletsBefore : b.life = 1 /\ b.velocity = Zero /\ Gone(b)
    /\ \E b \in BulletsBefore : b.life = 2 /\ b.velocity = Zero /\ ~Gone(b)

\* the asteroids of the last event (those it found and the one it spawned)
\* that are no longer there, and the collisions that destroyed asteroids
AsteroidsGone ==
    (Ids(last.before.asteroids) \cup (IF SpawnedInTick THEN {uniqueId} ELSE {}))
        \ Ids(asteroids)
ShotDown(a) == \E k \in 1..Len(last.kills) : last.kills[k][2] = a
StruckPlayer(a) == a \in last.hitPA /\ Logged("Player hit by asteroid!")

\* C19, as stated: every bullet or asteroid that leaves the live set is
\* destroyed by a collision, by lifetime expiry (bullets only) or by the
\* game-over teardown, and for no other reason.
C19_ThreeCauses ==
    /\ \A b \in BulletsBefore : Gone(b) => Collided(b) \/ Expired(b) \/ TornDown
    /\ \A a \in AsteroidsGone : ShotDown(a) \/ StruckPlayer(a) \/ TornDown
\* C19, amended: every bullet or asteroid that leaves the live set is
\* destroyed by a collision, by lifetime expiry (bullets only), by the
\* out-of-bounds cull (bullets only) or by the game-over teardown, and
\* for no other reason.
C19_FourCauses ==
    /\ \A b \in BulletsBefore :
          Gone(b) => Collided(b) \/ Expired(b) \/ Culled(b) \/ TornDown
    /\ \A a \in AsteroidsGone : ShotDown(a) \/ StruckPlayer(a) \/ TornDown
    /\ Cardinality({a \in AsteroidsGone : ~ShotDown(a)}) > 1 => TornDown
\* a bullet with life left and touched by nothing left the play area
C19_CulledWithLifeLeft ==
    /\ last.op = "tick" /\ ~isGameOver
    /\ \E b \in BulletsBefore :
          Gone(b) /\ Culled(b) /\ ~Expired(b) /\ ~Collided(b)

\* C20: the player-asteroid test runs only when the player is Alive, and a
\* tick handles at most one hit: lives goes down by at most 1 and at most
\* one asteroid is destroyed by the player collision, however many
\* asteroids overlap the player.
C20_OneHitPerTick ==
    last.op = "tick" =>
        /\ lives >= last.before.lives - 1
        /\ session.hits <= last.before.session.hits + 1
        /\ Cardinality({k \in 1..Len(last.console) :
                           last.console[k] = "Player hit by asteroid!"}) <= 1
        /\ StruckInTick => WasAlive
        /\ ~WasAlive => lives = last.before.lives /\ session.hits = last.before.session.hits
        /\ ~TornDown => Cardinality({a \in AsteroidsGone : ~ShotDown(a)}) <= 1
\* two asteroids overlapped the player at once: one struck, one is still there
C20_TwoOverlapOneStruck ==
    /\ StruckInTick /\ ~isGameOver
    /\ Cardinality(last.hitPA) = 2
    /\ Cardinality(last.hitPA \cap Ids(asteroids)) = 1
    /\ lives = last.before.lives - 1

\* where the integration step left the ship, before wrapAround
Integrated == VAdd(last.before.playerShip.position, playerVelocity)
Displacement == VSub(playerShip.position, last.before.playerShip.position)
MaxSpeedSq == PLAYER_MAX_SPEED * PLAYER_MAX_SPEED
\* a tick of the canonical script that found the player Alive and did not
\* end in a respawn
FlownTick ==
    script = "canonical" /\ last.op = "tick" /\ WasAlive /\ ~StruckInTick

\* C21, as stated: each tick in which the player is Alive damps the
\* velocity, then clamps it to PLAYER_MAX_SPEED, then adds it to the
\* position, so the player's displacement in one tick never exceeds
\* PLAYER_MAX_SPEED.
C21_DisplacementWithinMaxSpeed ==
    (script = "canonical" /\ last.op = "tick" /\ WasAlive) =>
        LengthSquared(Displacement) <= MaxSpeedSq
\* C21, amended: each tick in which the player is Alive damps the velocity,
\* then clamps it to PLAYER_MAX_SPEED keeping its direction, then adds the
\* clamped velocity to the position and wraps the position; the step
\* taken by the integration never exceeds PLAYER_MAX_SPEED, however many
\* thrust events came before, and it is the displacement of the tick
\* unless the ship is wrapped to the opposite limit (or respawned at the
\* origin by a hit in the same tick).
C21_DampClampIntegrate ==
    FlownTick =>
        LET damped == VScale(last.before.playerVelocity, PLAYER_DAMPING, 100)
        IN /\ LengthSquared(playerVelocity) <= MaxSpeedSq
           /\ LengthSquared(damped) <= MaxSpeedSq => playerVelocity = damped
           /\ LengthSquared(damped) > MaxSpeedSq =>
                 /\ Length(playerVelocity) >= PLAYER_MAX_SPEED - 2
                 /\ \A k \in 1..3 :
                       /\ playerVelocity[k] * damped[k] >= 0
                       /\ Abs(playerVelocity[k]) <= Abs(damped[k])
           /\ playerShip.position = wrapAround(script, Integrated)
           /\ Displacement # playerVelocity =>
                 \E k \in 1..3 : Abs(Integrated[k]) > WrapLimit(script)
\* after a long burst of thrust the velocity was clamped and the step
\* carried the ship over the wrap limit
C21_ClampedAndWrapped ==
    /\ FlownTick
    /\ LengthSquared(last.before.playerVelocity) > MaxSpeedSq
    /\ playerVelocity # VScale(last.before.playerVelocity, PLAYER_DAMPING, 100)
    /\ Length(playerVelocity) >= PLAYER_MAX_SPEED - 2
    /\ Displacement # playerVelocity

\* the asteroid of the scenario: speed 0.04, and the ticks it has been advanced
AtFullSpeed == Len(asteroids) = 1 /\ Length(asteroids[1].velocity) = ASTEROID_MAX_SPEED
ScenarioTicks == 750

\* C22, as stated: an asteroid placed at (30,0,0) with velocity of
\* magnitude 0.04 aimed at the origin, advanced by the asteroid integrator
\* for 750 ticks, has x < 0 after the 750th tick.
C22_CrossedAfter750 ==
    (AtFullSpeed /\ steps = ScenarioTicks) => asteroids[1].position[1] < 0
\* C22, amended: such an asteroid moves by 0.04 towards the origin along x
\* in every tick, y and z staying 0: after the 750th tick it has covered
\* 750 * 0.04 = 30 units and is at x = 0, not yet beyond it, and it has
\* x < 0 from the 751st tick on.
C22_CrossedAfter751 ==
    AtFullSpeed =>
        /\ asteroids[1].position = <<PLAY_AREA_SIZE - ASTEROID_MAX_SPEED * steps, 0, 0>>
        /\ steps = ScenarioTicks => asteroids[1].position[1] = 0
        /\ steps > ScenarioTicks => asteroids[1].position[1] < 0
\* the asteroid after the 750th tick, at the origin
C22_AtOriginAfter750 ==
    /\ AtFullSpeed /\ steps = ScenarioTicks
    /\ last.op = "updateAsteroids"
    /\ asteroids[1].position = Zero

\* where the ship was when the spawn of the last tick chose its position:
\* moved by the tick, and not yet respawned by a hit later in the tick
ShipAtSpawn ==
    IF StruckInTick THEN movePlayer(script, last.before).playerShip ELSE playerShip
\* the asteroid the last tick spawned, if it is still there
SpawnedAsteroids == {k \in 1..Len(asteroids) : SpawnedInTick /\ asteroids[k].id = uniqueId}

\* C23: in the canonical script, every asteroid at the moment it is spawned
\* lies at a squared distance of at least 100 from the player's position
\* at that moment whenever a player ship exists, wherever the ship is
\* (the respawn origin during invincibility included).
C23_SpawnedAwayFromPlayer ==
    script = "canonical" =>
        \A k \in SpawnedAsteroids :
            \/ ShipAtSpawn.isNull
            \/ LengthSquared(VSub(asteroids[k].position, ShipAtSpawn.position)) >= MinSpawnDistSq
\* the ship was within 10 units of a point of the face x = PLAY_AREA_SIZE
\* that the spawn may draw, and the asteroid was spawned elsewhere
C23_RetriedNearFace ==
    /\ script = "canonical" /\ SpawnedAsteroids # {} /\ ~StruckInTick
    /\ LengthSquared(VSub(<<PLAY_AREA_SIZE, 0, 0>>, playerShip.position)) < MinSpawnDistSq

\* a point of a face of the bounding cube
OnFace(p) ==
    /\ \E i \in 1..3 : Abs(p[i]) = PLAY_AREA_SIZE
    /\ \A i \in 1..3 : Abs(p[i]) <= PLAY_AREA_SIZE
\* draws of the position over the whole range of Math.random()
FaceDraws ==
    [r : {-100, 0, 99} \X {-100, 0, 99} \X {-100, 0, 99}, axis : 0..2, side : {-1, 1}]

\* C24: every spawned asteroid starts on a face of the bounding cube: the
\* axis chosen at random is set to +PLAY_AREA_SIZE or -PLAY_AREA_SIZE and
\* the other two coordinates lie within the cube, so at spawn at least one
\* coordinate has absolute value PLAY_AREA_SIZE and none exceeds it.
C24_SpawnedOnFace ==
    /\ \A k \in SpawnedAsteroids : OnFace(asteroids[k].position)
    /\ \A d \in FaceDraws :
          LET p == SpawnPos(script, d)
          IN /\ OnFace(p)
             /\ p[d.axis + 1] = d.side * PLAY_AREA_SIZE
             /\ \A i \in 1..3 \ {d.axis + 1} : Abs(p[i]) <= EdgeDist(script)
\* an asteroid was spawned on the face z = -PLAY_AREA_SIZE, off its centre
C24_SpawnedOffCentre ==
    \E k \in SpawnedAsteroids :
        /\ asteroids[k].position[3] = -PLAY_AREA_SIZE
        /\ asteroids[k].position[1] # 0 /\ asteroids[k].position[2] # 0

\* the asteroids bullet b intersected in the last tick, the bullets that
\* left the array without expiring or being culled, the asteroids shot down
Touched(b) == {a \in Ids(last.before.asteroids) \cup {uniqueId} : <<b, a>> \in last.hitBA}
BulletsHit == {b \in BulletsBefore : Gone(b) /\ ~Expired(b) /\ ~Culled(b)}
AsteroidsShot == {a \in AsteroidsGone : ShotDown(a)}
Killed == {last.kills[k] : k \in 1..Len(last.kills)}

\* C25: in game.js, one bullet kills at most one asteroid per tick: the
\* scan of a bullet stops at the first asteroid it intersects (the one
\* latest in the array that is still there), the hit removes that bullet
\* and that asteroid and adds 100 to score, and within one tick as many
\* asteroids are destroyed by bullets as bullets are destroyed by
\* collision.
C25_OneKillPerBullet ==
    (script = "game" /\ last.op = "tick") =>
        /\ \A p, q \in Killed : (p[1] = q[1] \/ p[2] = q[2]) => p = q
        /\ Cardinality(Killed) = Len(last.kills)
        /\ \A p \in Killed :
              /\ p \in last.hitBA
              /\ p[1] \notin Ids(bullets) /\ p[2] \notin Ids(asteroids)
              /\ \A a \in Touched(p[1]) :
                    a > p[2] => \E q \in Killed : q[2] = a /\ q[1] > p[1]
        /\ score = last.before.score + SCORE_PER_ASTEROID * Len(last.kills)
        /\ ~TornDown =>
              /\ Cardinality(BulletsHit) = Cardinality(AsteroidsShot)
              /\ Cardinality(BulletsHit) = Len(last.kills)
              /\ Cardinality(AsteroidsGone) =
                    Cardinality(BulletsHit) + (IF StruckInTick THEN 1 ELSE 0)
\* one bullet intersected two asteroids in a tick and destroyed one
C25_TwoTouchedOneKilled ==
    /\ script = "game" /\ last.op = "tick" /\ ~TornDown
    /\ \E p \in Killed : Cardinality(Touched(p[1])) = 2
    /\ Cardinality(AsteroidsGone) = 1
    /\ score = last.before.score + SCORE_PER_ASTEROID

\* C26: whenever the player enters the Invincible state, provided ticks
\* keep occurring and the host clock keeps advancing, the player
\* eventually returns to Alive; the Invincible state is never left towards
\* Dead (it is left towards Alive only) and never lasts forever.
C26_InvincibleLeadsToAlive ==
    /\ Invincible ~> Alive
    /\ [][Invincible => (Invincible' \/ Alive')]_vars
    /\ [](playerInvincible => Invincible)
\* the player returned to Alive in a frame after the steps explored
C26_AliveAgainAtLast ==
    /\ last.op = "tick" /\ last.before.playerInvincible /\ Alive
    /\ steps = MaxSteps /\ last.before.session.hits = 2

\* the host gives both scripts the same meshes: whatever one of them builds,
\* the other builds too
SharedBuilders ==
    /\ ConeBuilt("game", host) = ConeBuilt("third", host)
    /\ SphereBuilt("game", host) = SphereBuilt("third", host)
    /\ IcosahedronBuilt("game", host) = IcosahedronBuilt("third", host)
\* From the state both have reached, game.js and the third script go to the
\* same state on the same frame (clock value, random numbers, intersection
\* results), trigger press or thumbstick move; and createScene left them
\* in the same state
InStep ==
    /\ Program(createScene("game", host)) = Program(createScene("third", host))
    /\ \A dir \in Directions :
          onTriggerPressed("game", State, dir) = onTriggerPressed("third", State, dir)
    /\ \A a \in StickAxes, dir \in Directions :
          onAxisValueChanged("game", State, a[1], a[2], dir)
              = onAxisValueChanged("third", State, a[1], a[2], dir)
    /\ \A now \in TickTimes :
       \A rnd \in RandomsRead("game", movePlayer("game", State), now) :
       \A h \in EngineResults(beforeCollisions("game", State, now, rnd)) :
          updateGameLogic("game", State, now, rnd, h.hitBA, h.hitPA)
              = updateGameLogic("third", State, now, rnd, h.hitBA, h.hitPA)

C28_HitsApartByWindow ==
    last.op = "tick" =>
        /\ session.hits <= last.before.session.hits + 1
        /\ lives >= last.before.lives - 1
        /\ last.before.playerInvincible =>
              /\ ~StruckInTick
              /\ lives = last.before.lives
              /\ session.hits = last.before.session.hits
        /\ (session.hits > last.before.session.hits /\ last.before.session.hits > 0) =>
              last.now - last.before.session.hitAt > RESPAWN_INVINCIBILITY_TIME
\* the invincibility expired in a tick in which an asteroid overlapped the
\* player, and no life was lost
C28_ExpiredUnderAsteroid ==
    /\ last.op = "tick" /\ last.before.playerInvincible /\ ~playerInvincible
    /\ last.hitPA # {}
    /\ lives = last.before.lives

\* the three player states, with the lives each of them goes with
AliveWithLives == Alive /\ lives >= 1
InvincibleWithLives == Invincible /\ 1 <= lives /\ lives < INITIAL_LIVES
DeadWithoutLives == Dead /\ ~playerInvincible

\* C29: in the canonical script, at the end of every tick (and of every
\* controller event) the player is in exactly one of three states: Alive
\* (ship enabled, not invincible, game not over, lives >= 1), Invincible
\* (ship disabled, playerInvincible, game not over, 1 <= lives <
\* INITIAL_LIVES) or Dead (no ship, not invincible, game over, lives = 0).
C29_OneOfThreeStates ==
    script = "canonical" =>
        Cardinality({k \in 1..3 :
            \/ k = 1 /\ AliveWithLives
            \/ k = 2 /\ InvincibleWithLives
            \/ k = 3 /\ DeadWithoutLives}) = 1
\* the canonical script after the tick that took the last life
C29_DiedInTick ==
    /\ script = "canonical" /\ last.op = "tick"
    /\ ~last.before.isGameOver /\ last.before.lives = 1
    /\ DeadWithoutLives

\* C30: the game-over state is absorbing: once isGameOver is true, a tick,
\* a trigger press and a thumbstick move (rotation or thrust) leave score,
\* lives, bullets, asteroids, the spawn clock and the player state (ship,
\* velocity, invincibility) as they were, and log nothing.
C30_GameOverAbsorbing ==
    (last.op \in {"tick", "fire", "stick"} /\ last.before.isGameOver) =>
        /\ Program(State) = Program(last.before)
        /\ isGameOver
        /\ uniqueId = last.before.uniqueId
        /\ last.console = <<>>
\* the thumbstick was pushed forward and aside after the game was over
C30_ThrustAfterGameOver ==
    /\ last.op = "stick" /\ last.before.isGameOver
    /\ last.input.ay < -10 /\ last.input.ax > 10
    /\ playerVelocity = Zero

\* every coordinate of p lies within [-limit, +limit]
InWrapBox(p) == \A k \in 1..3 : Abs(p[k]) <= WrapLimit(script)

\* C31: at the end of every tick, every coordinate of the player's position
\* and of every live asteroid's position lies within [-limit, +limit], where
\* limit is PLAY_AREA_SIZE plus the wrap buffer (32 in the canonical script,
\* 30 in game.js), freshly spawned asteroids and the respawned player
\* included.
C31_InsideWrapBox ==
    /\ WrapLimit("canonical") = 3200 /\ WrapLimit("game") = 3000
    /\ last.op = "tick" =>
          /\ ~playerShip.isNull => InWrapBox(playerShip.position)
          /\ \A k \in 1..Len(asteroids) : InWrapBox(asteroids[k].position)
\* the tick carried the ship and an asteroid over the limit and spawned
\* another asteroid
C31_CrossedAndSpawned ==
    /\ last.op = "tick" /\ SpawnedInTick /\ ~StruckInTick
    /\ ~InWrapBox(VAdd(last.before.playerShip.position, playerVelocity))
    /\ \E k \in 1..Len(last.before.asteroids) :
          LET a == last.before.asteroids[k]
          IN ~InWrapBox(VAdd(a.position, a.velocity)) /\ a.id \in Ids(asteroids)

\* every coordinate of p lies within the cull limit
InCullBox(p) == \A k \in 1..3 : Abs(p[k]) <= PLAY_AREA_SIZE + CullMargin(script)

\* C32: at the end of every tick, every live bullet has a remaining life
\* between 1 and BULLET_LIFETIME - 1 inclusive and every coordinate of its
\* position has absolute value at most PLAY_AREA_SIZE plus the cull margin;
\* a bullet is never moved by the wrap policy: its position changes only by
\* adding its own constant velocity, once per tick.
C32_BulletsAgedAndInside ==
    /\ last.op = "tick" =>
          \A i \in 1..Len(bullets) :
             /\ 1 <= bullets[i].life /\ bullets[i].life <= BULLET_LIFETIME(script) - 1
             /\ InCullBox(bullets[i].position)
             /\ \E b \in BulletsBefore :
                   /\ b.id = bullets[i].id
                   /\ bullets[i].velocity = b.velocity
                   /\ bullets[i].position = VAdd(b.position, b.velocity)
    /\ last.op # "tick" =>
          \A b \in BulletsBefore : \E i \in 1..Len(bullets) : bullets[i] = b
\* the tick left one bullet on the cull limit, beyond the wrap limit, and
\* took the first unit of life from another
C32_OnCullLimitAndFresh ==
    /\ last.op = "tick"
    /\ \E i \in 1..Len(bullets) :
          /\ bullets[i].position[1] = PLAY_AREA_SIZE + CullMargin(script)
          /\ ~InWrapBox(bullets[i].position)
    /\ \E i \in 1..Len(bullets) : bullets[i].life = BULLET_LIFETIME(script) - 1

\* C33: every fired bullet is eventually removed: while ticks keep
\* occurring, a bullet leaves the live set at the latest in the
\* BULLET_LIFETIME-th tick after it was fired (earlier if it collides,
\* leaves the cull box, or the game ends), so no bullet exists for more
\* than BULLET_LIFETIME ticks.
C33_BulletsRemovedInTime ==
    /\ (bullets # <<>>) ~> (bullets = <<>>)
    /\ [](\A i \in 1..Len(bullets) :
             /\ steps < BULLET_LIFETIME(script)
             /\ bullets[i].life = BULLET_LIFETIME(script) - steps)
\* the BULLET_LIFETIME-th tick after the salvo removed a bullet that had
\* one unit of life left, and nothing else did
C33_ExpiredInLastTick ==
    /\ last.op = "tick" /\ steps = BULLET_LIFETIME(script)
    /\ ~isGameOver /\ last.kills = <<>>
    /\ \E b \in BulletsBefore : b.life = 1 /\ Gone(b) /\ ~Culled(b)

\* the bullets and the asteroids the collisions of the last event destroyed
KillerBullets == {last.kills[k][1] : k \in 1..Len(last.kills)}
KilledAsteroids == {last.kills[k][2] : k \in 1..Len(last.kills)}

\* C34: in every reachable state score is a non-negative multiple of 100
\* that never decreases; it changes only in the bullet-asteroid phase of
\* collision resolution and equals 100 times the number of bullets removed
\* by a collision so far (equivalently, the number of asteroids destroyed
\* by bullets): every event adds 100 per bullet-asteroid pair it destroys
\* to a score that starts at 0, and player-asteroid hits, bullet expiry
\* and bullet culling never change score.
C34_ScoreCountsKills ==
    /\ score >= 0 /\ score % 100 = 0
    /\ score >= last.before.score
    /\ last.op = "createScene" => score = 0
    /\ score = last.before.score + 100 * Len(last.kills)
    /\ Cardinality(KillerBullets) = Len(last.kills)
    /\ Cardinality(KilledAsteroids) = Len(last.kills)
    /\ KillerBullets \subseteq Ids(last.before.bullets) \ Ids(bullets)
    /\ KilledAsteroids \subseteq AsteroidsGone
    /\ last.op = "tick" =>
          {b.id : b \in {c \in BulletsBefore : Gone(c) /\ ~Expired(c) /\ ~Culled(c) /\ ~TornDown}}
              \subseteq KillerBullets
    /\ last.op \notin {"tick", "opening"} => score = last.before.score
\* one tick destroyed two bullets and two asteroids and scored 200
C34_TwoKillsInTick ==
    /\ last.op = "tick" /\ Len(last.kills) = 2
    /\ score = last.before.score + 200
    /\ ~StruckInTick

\* the bullets that are live when the collisions of the last tick are
\* resolved, and the asteroids each of them intersects
LiveBullets == {b.id : b \in {c \in BulletsBefore : ~Expired(c) /\ ~Culled(c)}}
TouchedBy(b) == {p[2] : p \in {q \in last.hitBA : q[1] = b}}
\* meshes are pushed as they are created, so a mesh with a larger id comes
\* later in its array and earlier in the descending loops
ShotFirst(a) == \E b \in LiveBullets : a \in TouchedBy(b)
ShotSurely(a) == \E b \in LiveBullets : a \in TouchedBy(b) /\ \A a2 \in TouchedBy(b) : a2 <= a

\* C35, as stated: in game.js the bullet-asteroid collisions are resolved
\* before the player-asteroid check within a tick: an asteroid that
\* intersects both a live bullet and the Alive player in the same tick is
\* destroyed by the bullet (score +100) and does not cost a life in that
\* tick unless another asteroid also intersects the player.
C35_ShotNotStruck ==
    (script = "game" /\ last.op = "tick" /\ WasAlive) =>
        \A a \in last.hitPA :
            ShotFirst(a) =>
                /\ a \in KilledAsteroids
                /\ score >= last.before.score + 100
                /\ last.hitPA = {a} => lives = last.before.lives
\* C35, amended: in game.js the bullet-asteroid collisions are resolved
\* before the player-asteroid check within a tick: an asteroid that
\* intersects the Alive player and a live bullet that intersects no
\* asteroid later in the array is destroyed by a bullet (score +100) and
\* does not cost a life in that tick unless another asteroid also
\* intersects the player; a bullet that also intersects a later asteroid
\* is used up by that one.
C35_ShotNotStruckUnlessUsedUp ==
    (script = "game" /\ last.op = "tick" /\ WasAlive) =>
        \A a \in last.hitPA :
            ShotSurely(a) =>
                /\ a \in KilledAsteroids
                /\ score >= last.before.score + 100
                /\ last.hitPA = {a} => lives = last.before.lives
\* an asteroid intersected a bullet and the player: it was shot, and no
\* life was lost
C35_ShotUnderThePlayer ==
    /\ script = "game" /\ last.op = "tick" /\ WasAlive
    /\ \E a \in last.hitPA :
          /\ last.hitPA = {a} /\ ShotSurely(a)
          /\ a \in KilledAsteroids
          /\ lives = last.before.lives /\ score = last.before.score + 100

\* C36: in the canonical script the spawn-position retry loop of
\* setupAsteroid terminates for every reachable player position: for any
\* player position inside the wrap box there is always an admissible face
\* position at squared distance >= 100 from the player, so under fair
\* random sampling the loop exits and an asteroid spawn never hangs the
\* tick.
C36_SpawnLoopExits ==
    /\ InLoop ~> (last.op = "setupAsteroid")
    /\ [](InWrapBox(playerShip.position) /\
          \E d \in SpawnFaceDraws :
             /\ OnFace(SpawnPos(script, d))
             /\ LengthSquared(VSub(SpawnPos(script, d), playerShip.position)) >= MinSpawnDistSq)
\* the loop drew again at least once and the asteroid was placed away from
\* the ship
C36_PlacedAfterRetry ==
    /\ last.op = "setupAsteroid" /\ steps >= 2
    /\ Len(asteroids) = 1 /\ asteroids[1].position = spawnPos
    /\ LengthSquared(VSub(spawnPos, playerShip.position)) >= MinSpawnDistSq

\* The bullet loop of checkCollisions by identity rather than by index: the
\* bullets bs take their turn from the last pushed to the first, each one
\* tested once against the asteroids as still there at its turn, from the
\* last pushed down, up to the first it intersects
MaxOf(S) == CHOOSE x \in S : \A y \in S : y <= x
RECURSIVE EachTestedOnce(_, _, _)
EachTestedOnce(bs, as, hitBA) ==
    IF bs = {} THEN {}
    ELSE LET b == MaxOf(bs)
             T == {a \in as : <<b, a>> \in hitBA}
         IN IF T = {} THEN EachTestedOnce(bs \ {b}, as, hitBA)
            ELSE {<<b, MaxOf(T)>>} \cup EachTestedOnce(bs \ {b}, as \ {MaxOf(T)}, hitBA)
\* the asteroids in the array when checkCollisions starts
AsteroidsAtCollision ==
    Ids(last.before.asteroids) \cup (IF SpawnedInTick THEN {uniqueId} ELSE {})

C38_WrapIdempotent ==
    last.op = "wrapAround" =>
        LET p0 == last.before.playerShip.position
        IN /\ playerShip.position = wrapAround(script, p0)
           /\ wrapAround(script, wrapAround(script, p0)) = wrapAround(script, p0)
           /\ \A k \in 1..3 :
                 playerShip.position[k] # p0[k] => Abs(playerShip.position[k]) = WrapLimit(script)
           /\ steps >= 2 => playerShip.position = p0
\* wrapAround was applied again to a position it had left on the limit on
\* every axis
C38_WrappedTwiceOnLimits ==
    /\ last.op = "wrapAround" /\ steps = 2
    /\ \A k \in 1..3 : Abs(last.before.playerShip.position[k]) = WrapLimit(script)
    /\ playerShip.position = last.before.playerShip.position
    /\ playerShip.position[1] # playerShip.position[2]
====
